---------------------------- MODULE Spec2Model ----------------------------
(***************************************************************************)
(* CyberGuard AI dashboard (React/TypeScript front end).                   *)
(*                                                                         *)
(* The module models the component state of the pages (Users, Dashboard,   *)
(* UserDetail, Recommendations, Settings), the Risk Simulator, the API     *)
(* client and the requests it sends, the score banding helpers and the     *)
(* route table, each with the handlers that change it.  Strings on which   *)
(* the code computes                                                       *)
(* (toLowerCase, includes, ===) are sequences of one-character strings;    *)
(* scores are held in tenths (39.9 is 399) so that the thresholds 40/30/20 *)
(* are exact.                                                              *)
(***************************************************************************)
EXTENDS Integers, Sequences, FiniteSets, TLC

VARIABLES
    \* ---- Users page (src/src/pages/Users.tsx 8-12)
    users,            \* useState<UserRiskData[]>([]): a JS value
    filteredUsers,    \* useState<UserRiskData[]>([])
    usersIsLoading,   \* useState(true)
    searchTerm,       \* useState('')
    selectedFilter,   \* useState('all')
    usersFetch,       \* position of the mount effect's fetchUsers()
    usersCrashed,     \* an exception escaped render (no error boundary)
    backendUsers,     \* the array the backend answers with on success
    \* ---- Risk Simulator (src/unnamed/part_000 7-19)
    simIsLoading,     \* useState(false)
    result,           \* useState<any>(null)
    formData,         \* useState<PredictionRequest>({...}): the draft
    lastOp,           \* the last operation on the draft (preset click or edit)
    pending,          \* prediction requests in flight
    submits,          \* submissions started so far
    answered,         \* the results the prediction endpoint answered with
    \* ---- Dashboard (src/src/pages/Users.tsx 296-303)
    stats,            \* useState<DashboardStats>({0, 0, 0, 0})
    trends,           \* useState<RiskTrend[]>([])
    dashIsLoading,    \* useState(true)
    dashFetch,        \* position of the mount effect's fetchDashboardData()
    backendStats,     \* the stats the backend holds
    backendTrends,    \* the trend series the backend holds
    \* ---- score banding
    score,            \* a score handed to the colour helpers (tenths)
    scoreClasses,     \* per component, the class string it rendered
    \* ---- routing and session (src/src/components/Layout.tsx 17-20, 174-211)
    session,          \* the auth session: NoSession or the current user
    location,         \* the router's location
    lastNav,          \* the path last navigated to
    sidebarOpen,      \* Layout: useState(false)
    \* ---- HTTP (src/unnamed/part_001 16-47, src/unnamed/part_002 34-38)
    localStorage,     \* window.localStorage: the value stored under 'token'
    calls,            \* invocations of riskAPI functions, with their outcome
    requests,         \* HTTP requests sent so far, with their answer
    \* ---- Recommendations page (src/unnamed/part_002 24-26)
    recData,          \* useState<RecommendationsData | null>(null)
    recIsLoading,     \* useState(true)
    recIsRefreshing,  \* useState(false)
    recFetch,         \* position of the mount effect
    recCrashed,       \* an exception escaped render (no error boundary)
    \* ---- UserDetail page (src/src/pages/UserDetail.tsx 10-13)
    activities,       \* useState<ActivityLog[]>([])
    detailIsLoading,  \* useState(true)
    detailUser,       \* useState<any>(null)
    detailFetch,      \* position of the [id] effect's fetchUserData()
    \* ---- UserDetail and Dashboard: the two requests of Promise.all
    detailFetches,    \* the runs of fetchUserData, with their two requests
    dashAnswers,      \* the two requests of fetchDashboardData
    \* ---- Settings page (src/src/pages/Settings.tsx 6-32)
    activeTab,        \* useState('profile')
    settingsIsLoading,\* useState(false)
    settings,         \* useState({profile, security, notifications, system})
    saveTimers,       \* handleSave runs waiting for their setTimeout
    saves,            \* saves started so far
    \* ---- component lifetime
    unmounted,        \* the pages that were mounted and have been unmounted
    lateUpdates,      \* state setters called on an unmounted page component
    \* ---- toast notifications shown so far (react-hot-toast, app-wide)
    toasts

usersVars == <<users, filteredUsers, usersIsLoading, searchTerm,
               selectedFilter, usersFetch, usersCrashed, backendUsers>>

simVars == <<simIsLoading, result, formData, lastOp, pending, submits,
            answered>>

dashVars == <<stats, trends, dashIsLoading, dashFetch, backendStats,
              backendTrends>>

bandVars == <<score, scoreClasses>>

routeVars == <<session, location, lastNav, sidebarOpen>>

netVars == <<localStorage, calls, requests>>

recVars == <<recData, recIsLoading, recIsRefreshing, recFetch, recCrashed>>

detailVars == <<activities, detailIsLoading, detailUser, detailFetch>>

\* the components added after the first five
lifeVars == <<unmounted, lateUpdates>>

parVars == <<detailFetches, dashAnswers>>

settingsVars == <<activeTab, settingsIsLoading, settings, saveTimers, saves>>

moreVars == <<parVars, settingsVars>>

extVars == <<netVars, recVars, detailVars, lifeVars, moreVars>>

vars == <<usersVars, simVars, dashVars, bandVars, routeVars, extVars, toasts>>

\* what a handler of one component leaves alone
exceptUsers == <<simVars, dashVars, bandVars, routeVars, extVars>>

exceptSim == <<usersVars, dashVars, bandVars, routeVars, extVars>>

exceptDash == <<usersVars, simVars, bandVars, routeVars, extVars>>

exceptBand == <<usersVars, simVars, dashVars, routeVars, extVars>>

exceptRoute == <<usersVars, simVars, dashVars, bandVars, extVars>>

firstVars == <<usersVars, simVars, dashVars, bandVars, routeVars>>

exceptNet == <<firstVars, recVars, detailVars, lifeVars, moreVars>>

exceptRec == <<firstVars, detailVars, lifeVars, moreVars>>

exceptDetail == <<usersVars, simVars, dashVars, bandVars, netVars, recVars,
                  lifeVars, moreVars>>

-----------------------------------------------------------------------------
(* Bounds of the model *)

MaxUsers == 2

MaxTermLen == 2

-----------------------------------------------------------------------------
(* JavaScript strings as sequences of characters *)

Upper == <<"A","B","C","D","E","F","G","H","I","J","K","L","M",
           "N","O","P","Q","R","S","T","U","V","W","X","Y","Z">>

Lower == <<"a","b","c","d","e","f","g","h","i","j","k","l","m",
           "n","o","p","q","r","s","t","u","v","w","x","y","z">>

\* the lower-case letter of each upper-case letter
LowerOf ==
    [c \in { Upper[i] : i \in 1..26 } |-> Lower[CHOOSE i \in 1..26 : Upper[i] = c]]

toLowerCaseChar(c) == IF c \in DOMAIN LowerOf THEN LowerOf[c] ELSE c

\* String.prototype.toLowerCase
toLowerCase(s) == [i \in 1..Len(s) |-> toLowerCaseChar(s[i])]

\* String.prototype.includes: sub occurs in s as a contiguous substring
includes(s, sub) ==
    \E i \in 0..(Len(s) - Len(sub)) : SubSeq(s, i + 1, i + Len(sub)) = sub

sAll      == <<"a","l","l">>
sCritical == <<"c","r","i","t","i","c","a","l">>
sHigh     == <<"h","i","g","h">>
sMedium   == <<"m","e","d","i","u","m">>
sLow      == <<"l","o","w">>
sMinimal  == <<"m","i","n","i","m","a","l">>

\* the <option value=...> of the risk-level select
FilterOptions == {sAll, sCritical, sHigh, sMedium, sLow, sMinimal}

-----------------------------------------------------------------------------
(* JavaScript values that flow from the API client into page state *)

Undefined == [kind |-> "undefined", items |-> <<>>]

ArrayOf(s) == [kind |-> "array", items |-> s]

IsArray(v) == v.kind = "array"

\* `v.data`: an axios response carries the body under data; an array (or
\* undefined) has no such property and the access yields undefined.
DataOf(v) == IF v.kind = "response" THEN v.data ELSE Undefined

\* riskAPI.getUserRiskScores: awaits the axios GET and returns response.data,
\* i.e. the body itself (Promise<UserRiskData[]>), not the axios response.
getUserRiskScores(body) == DataOf([kind |-> "response", data |-> ArrayOf(body)])

-----------------------------------------------------------------------------
(* Risk records the backend may answer with *)

UserPool == {
    [user_id |-> 1, name |-> <<"A","l"," ","B">>, email |-> <<"a","l","@","x">>,
     current_score |-> 452, risk_level |-> <<"C","r","i","t","i","c","a","l">>],
    [user_id |-> 2, name |-> <<"b","o","b">>, email |-> <<"b","@","x">>,
     current_score |-> 310, risk_level |-> <<"h","i","g","h">>],
    [user_id |-> 3, name |-> <<"B","a","b">>, email |-> <<"B","A","@","x">>,
     current_score |-> 310, risk_level |-> <<"H","I","G","H">>],
    [user_id |-> 4, name |-> <<"a","a">>, email |-> <<"z","@","y">>,
     current_score |-> 250, risk_level |-> <<"M","e","d","i","u","m">>],
    [user_id |-> 5, name |-> <<"c"," ","c">>, email |-> <<"c","@","y">>,
     current_score |-> 50, risk_level |-> <<"m","i","n","i","m","a","l">>] }

\* response arrays: up to MaxUsers distinct records, in any order
UserLists ==
    { l \in UNION { [1..n -> UserPool] : n \in 0..MaxUsers } :
        \A i, j \in 1..Len(l) : i # j => l[i] # l[j] }

TermChars == {" ", "a", "B"}

\* values typed into the search box
SearchTerms == UNION { [1..n -> TermChars] : n \in 0..MaxTermLen }

-----------------------------------------------------------------------------
(* Users page: filterUsers *)

\* the search predicate of filterUsers (lines 34-37)
MatchesSearch(user, term) ==
    \/ includes(toLowerCase(user.name), toLowerCase(term))
    \/ includes(toLowerCase(user.email), toLowerCase(term))

\* mutant of MatchesLevel: the level is compared as stored, without toLowerCase
MatchesLevelAsStored(user, filter) == user.risk_level = filter

\* the risk-level predicate of filterUsers (line 40)
MatchesLevel(user, filter) == toLowerCase(user.risk_level) = filter

\* insert u into a list sorted by descending score, after every element that
\* does not compare greater (Array.prototype.sort is stable)
RECURSIVE InsertDesc(_, _)
InsertDesc(sorted, u) ==
    IF sorted = <<>> THEN <<u>>
    ELSE IF Head(sorted).current_score >= u.current_score
         THEN <<Head(sorted)>> \o InsertDesc(Tail(sorted), u)
         ELSE <<u>> \o sorted

\* mutant of SortByScoreDesc: the list is left in the order of the filter
KeepOrder(s) == s

\* filtered.sort((a, b) => b.current_score - a.current_score)
RECURSIVE SortByScoreDesc(_)
SortByScoreDesc(s) ==
    IF s = <<>> THEN <<>>
    ELSE InsertDesc(SortByScoreDesc(SubSeq(s, 1, Len(s) - 1)), s[Len(s)])

\* filterUsers: the value it passes to setFilteredUsers (Array.prototype.filter
\* is SelectSeq)
filterUsers(list, term, filter) ==
    LET bySearch == SelectSeq(list, LAMBDA u : MatchesSearch(u, term))
        byLevel  == IF filter # sAll
                    THEN SelectSeq(bySearch, LAMBDA u : MatchesLevel(u, filter))
                    ELSE bySearch
    IN  SortByScoreDesc(byLevel)

-----------------------------------------------------------------------------
(* Users page: state after construction and handlers *)

UsersInit ==
    /\ users = ArrayOf(<<>>)
    /\ filteredUsers = <<>>
    /\ usersIsLoading = TRUE
    /\ searchTerm = <<>>
    /\ selectedFilter = sAll
    /\ usersFetch = "init"
    /\ usersCrashed = FALSE

\* the search box and the select exist only in the non-loading render
UsersRendered == ~usersIsLoading /\ ~usersCrashed

\* mount: both effects run; fetchUsers() issues the request, filterUsers()
\* runs on the initial state
UsersMount ==
    /\ usersFetch = "init"
    /\ usersFetch' = "pending"
    /\ filteredUsers' = filterUsers(users.items, searchTerm, selectedFilter)
    /\ UNCHANGED <<users, usersIsLoading, searchTerm, selectedFilter,
                   usersCrashed, backendUsers, toasts,
                   exceptUsers>>

\* fetchUsers, the request succeeded: setUsers(response.data) on the value
\* getUserRiskScores returned, then setIsLoading(false); the re-render reads
\* users.length and the [users] effect calls users.filter
UsersFetchResolve ==
    /\ usersFetch = "pending"
    /\ usersFetch' = "resolved"
    /\ users' = DataOf(getUserRiskScores(backendUsers))
    /\ usersIsLoading' = FALSE
    /\ IF IsArray(users')
       THEN /\ filteredUsers' =
                 filterUsers(users'.items, searchTerm, selectedFilter)
            /\ usersCrashed' = FALSE
       ELSE /\ usersCrashed' = TRUE
            /\ UNCHANGED filteredUsers
    /\ UNCHANGED <<searchTerm, selectedFilter, backendUsers, toasts,
                   exceptUsers>>

\* mutant of UsersFetchReject: a failed request ends the session
UsersFetchRejectLogsOut ==
    /\ usersFetch = "pending"
    /\ usersFetch' = "rejected"
    /\ usersIsLoading' = FALSE
    /\ session' = [kind |-> "null"]
    /\ UNCHANGED <<users, filteredUsers, searchTerm, selectedFilter,
                   usersCrashed, backendUsers, toasts, simVars, dashVars,
                   bandVars, location, lastNav, sidebarOpen, extVars>>

\* fetchUsers, the request failed: console.error, then setIsLoading(false)
UsersFetchReject ==
    /\ usersFetch = "pending"
    /\ usersFetch' = "rejected"
    /\ usersIsLoading' = FALSE
    /\ UNCHANGED <<users, filteredUsers, searchTerm, selectedFilter,
                   usersCrashed, backendUsers, toasts,
                   exceptUsers>>

\* mutant of SetSearchTerm: a change of the search term fetches again
SetSearchTermRefetches(t) ==
    /\ UsersRendered
    /\ searchTerm' = t
    /\ usersFetch' = "pending"
    /\ usersIsLoading' = TRUE
    /\ UNCHANGED <<users, filteredUsers, selectedFilter, usersCrashed,
                   backendUsers, toasts, exceptUsers>>

\* onChange of the search box, then the [searchTerm] effect
SetSearchTerm(t) ==
    /\ UsersRendered
    /\ searchTerm' = t
    /\ filteredUsers' = filterUsers(users.items, t, selectedFilter)
    /\ UNCHANGED <<users, usersIsLoading, selectedFilter, usersFetch,
                   usersCrashed, backendUsers, toasts,
                   exceptUsers>>

\* mutant of SetSelectedFilter: the sort is done on the users array itself
SetSelectedFilterSortsUsers(f) ==
    /\ UsersRendered
    /\ selectedFilter' = f
    /\ users' = ArrayOf(SortByScoreDesc(users.items))
    /\ filteredUsers' = filterUsers(users.items, searchTerm, f)
    /\ UNCHANGED <<usersIsLoading, searchTerm, usersFetch,
                   usersCrashed, backendUsers, toasts,
                   exceptUsers>>

\* onChange of the risk-level select, then the [selectedFilter] effect
SetSelectedFilter(f) ==
    /\ UsersRendered
    /\ selectedFilter' = f
    /\ filteredUsers' = filterUsers(users.items, searchTerm, f)
    /\ UNCHANGED <<users, usersIsLoading, searchTerm, usersFetch,
                   usersCrashed, backendUsers, toasts,
                   exceptUsers>>

\* rows of the table (filteredUsers.map), none when nothing is rendered
RenderedRows == IF UsersRendered THEN Len(filteredUsers) ELSE 0

-----------------------------------------------------------------------------
(* API client: the functions the riskAPI object defines *)

riskAPI == {"getUserRiskScores", "getUserById", "updateRiskScore"}

\* riskAPI.m(...) on a name the object does not define calls undefined and
\* throws a TypeError at the call
CallThrows(m) == m \notin riskAPI

-----------------------------------------------------------------------------
(* Risk Simulator: the draft request and the preset scenarios *)

Null == [kind |-> "null"]

\* useState<PredictionRequest>({...})
formDataInitial ==
    [user_id |-> 1, action |-> "login", resource |-> "/admin/dashboard",
     location |-> "192.168.1.100", success |-> TRUE, login_frequency |-> 1,
     failed_attempts |-> 0, file_size |-> 0, session_duration |-> 60]

presetScenarios == <<
    [name |-> "Normal Activity",
     data |-> [action |-> "file_access", resource |-> "/documents/report.pdf",
               location |-> "192.168.1.100", success |-> TRUE,
               failed_attempts |-> 0, session_duration |-> 120]],
    [name |-> "Suspicious Late Access",
     data |-> [action |-> "system_access", resource |-> "/admin/config.php",
               location |-> "203.0.113.42", success |-> TRUE,
               failed_attempts |-> 0, session_duration |-> 15]],
    [name |-> "Failed Login Attempts",
     data |-> [action |-> "login", resource |-> "/login",
               location |-> "198.51.100.30", success |-> FALSE,
               failed_attempts |-> 5, session_duration |-> 5]],
    [name |-> "Large Data Download",
     data |-> [action |-> "download", resource |-> "/database/backup.sql",
               location |-> "10.0.0.50", success |-> TRUE,
               failed_attempts |-> 0, file_size |-> 2048,
               session_duration |-> 300]] >>

PresetIndexes == DOMAIN presetScenarios

\* mutant of SpreadMerge: the preset is laid over the initial draft instead of
\* the current one
SpreadOverInitial(prev, data) ==
    [f \in (DOMAIN prev) \cup (DOMAIN data) |->
        IF f \in DOMAIN data THEN data[f] ELSE formDataInitial[f]]

\* ({ ...prev, ...data }): the object spread of the preset's onClick
SpreadMerge(prev, data) ==
    [f \in (DOMAIN prev) \cup (DOMAIN data) |->
        IF f \in DOMAIN data THEN data[f] ELSE prev[f]]

\* the form's inputs (there is none for login_frequency) and values typed or
\* selected in them
EditValues ==
    [user_id          |-> {2},
     action           |-> {"upload"},
     resource         |-> {"/login"},
     location         |-> {"10.0.0.50"},
     success          |-> {TRUE, FALSE},
     failed_attempts  |-> {3},
     file_size        |-> {512},
     session_duration |-> {30}]

EditableFields == DOMAIN EditValues

\* mutant of ApplyPreset: a preset click also counts as a login
ApplyPresetCountsLogin(i) ==
    /\ formData' =
          [SpreadMerge(formData, presetScenarios[i].data)
              EXCEPT !.login_frequency = IF @ < 3 THEN @ + 1 ELSE @]
    /\ lastOp' = [kind |-> "preset", index |-> i]
    /\ UNCHANGED <<simIsLoading, result, pending, submits, answered, toasts,
                   exceptSim>>

\* onClick of a preset button: setFormData(prev => ({...prev, ...scenario.data}))
ApplyPreset(i) ==
    /\ formData' = SpreadMerge(formData, presetScenarios[i].data)
    /\ lastOp' = [kind |-> "preset", index |-> i]
    /\ UNCHANGED <<simIsLoading, result, pending, submits, answered, toasts,
                   exceptSim>>

\* handleInputChange(field, value): setFormData(prev => ({...prev, [field]: value}))
HandleInputChange(field, value) ==
    /\ formData' = [formData EXCEPT ![field] = value]
    /\ lastOp' = [kind |-> "edit", index |-> 0]
    /\ UNCHANGED <<simIsLoading, result, pending, submits, answered, toasts,
                   exceptSim>>

-----------------------------------------------------------------------------
(* Risk Simulator: submission *)

MaxSubmits == 3

\* results the prediction endpoint may answer with (risk_score in tenths)
PredictionResults == {
    [risk_score |-> 125, explanation |-> "low", recommendations |-> <<>>],
    [risk_score |-> 431, explanation |-> "high", recommendations |-> <<"mfa">>] }

\* riskAPI.predict as the callers use it: the promise resolves with a response
\* object that carries the PredictionResult under data
predict(r) == [kind |-> "response", data |-> r]

\* mutant of SubmitDisabled: the button is never disabled
SubmitNeverDisabled == FALSE

\* <button type="submit" disabled={isLoading}>
SubmitDisabled == simIsLoading

RemoveAt(s, k) == SubSeq(s, 1, k - 1) \o SubSeq(s, k + 1, Len(s))

SimInit ==
    /\ simIsLoading = FALSE
    /\ result = Null
    /\ formData = formDataInitial
    /\ lastOp = [kind |-> "none", index |-> 0]
    /\ pending = <<>>
    /\ submits = 0
    /\ answered = <<>>

\* handleSubmit with the riskAPI object as it is defined: riskAPI.predict is
\* not a function, the call throws inside the try, the catch shows the error
\* toast and finally clears isLoading again, all before the next render
HandleSubmitThrows ==
    /\ ~SubmitDisabled
    /\ CallThrows("predict")
    /\ submits < MaxSubmits
    /\ submits' = submits + 1
    /\ toasts' = Append(toasts, [kind |-> "error",
                                 text |-> "Failed to assess risk"])
    /\ simIsLoading' = FALSE
    /\ UNCHANGED <<result, formData, lastOp, pending, answered, exceptSim>>

\* handleSubmit up to its await, with an API client that provides predict:
\* setIsLoading(true), riskAPI.predict(formData)
HandleSubmit ==
    /\ ~SubmitDisabled
    /\ submits < MaxSubmits
    /\ submits' = submits + 1
    /\ simIsLoading' = TRUE
    /\ pending' = Append(pending, [payload |-> formData])
    /\ UNCHANGED <<result, formData, lastOp, answered, toasts, exceptSim>>

\* mutant of PredictResolve: a result already on display is kept
PredictResolveKeepsFirst ==
    \E k \in 1..Len(pending), r \in PredictionResults :
        /\ pending' = RemoveAt(pending, k)
        /\ answered' = Append(answered, r)
        /\ result' = IF result = Null THEN DataOf(predict(r)) ELSE result
        /\ toasts' = Append(toasts, [kind |-> "success",
                                     text |-> "Risk assessment completed!"])
        /\ simIsLoading' = FALSE
        /\ UNCHANGED <<formData, lastOp, submits, exceptSim>>

\* handleSubmit after the await, the promise resolved: setResult(response.data),
\* toast.success, finally setIsLoading(false)
PredictResolve ==
    \E k \in 1..Len(pending), r \in PredictionResults :
        /\ pending' = RemoveAt(pending, k)
        /\ answered' = Append(answered, r)
        /\ result' = DataOf(predict(r))
        /\ toasts' = Append(toasts, [kind |-> "success",
                                     text |-> "Risk assessment completed!"])
        /\ simIsLoading' = FALSE
        /\ UNCHANGED <<formData, lastOp, submits, exceptSim>>

\* mutant of PredictReject: the catch branch also clears the result
PredictRejectClearsResult ==
    \E k \in 1..Len(pending) :
        /\ pending' = RemoveAt(pending, k)
        /\ result' = Null
        /\ toasts' = Append(toasts, [kind |-> "error",
                                     text |-> "Failed to assess risk"])
        /\ simIsLoading' = FALSE
        /\ UNCHANGED <<formData, lastOp, submits, answered, exceptSim>>

\* handleSubmit after the await, the promise rejected: toast.error,
\* console.error, finally setIsLoading(false)
PredictReject ==
    \E k \in 1..Len(pending) :
        /\ pending' = RemoveAt(pending, k)
        /\ toasts' = Append(toasts, [kind |-> "error",
                                     text |-> "Failed to assess risk"])
        /\ simIsLoading' = FALSE
        /\ UNCHANGED <<result, formData, lastOp, submits, answered, exceptSim>>

-----------------------------------------------------------------------------
(* Dashboard *)

statsInitial ==
    [total_users |-> 0, high_risk_users |-> 0, recent_alerts |-> 0,
     average_risk_score |-> 0]

\* stats the backend holds (average_risk_score in tenths)
BackendStats ==
    { s \in [total_users : {0, 100, 1200}, high_risk_users : {0, 12, 1200},
             recent_alerts : {0, 3, 7}, average_risk_score : {0, 275}] :
        s.high_risk_users <= s.total_users }

BackendTrends ==
    { <<>>, <<[date |-> "2024-01-01", average_score |-> 250]>> }

DashInit ==
    /\ stats = statsInitial
    /\ trends = <<>>
    /\ dashIsLoading = TRUE
    /\ dashFetch = "init"

\* mount effect: fetchDashboardData().  The array literal handed to
\* Promise.all calls riskAPI.getDashboardStats() and riskAPI.getRiskTrends();
\* a call that throws is caught (console.error) and finally clears isLoading.
DashMount ==
    /\ dashFetch = "init"
    /\ IF CallThrows("getDashboardStats") \/ CallThrows("getRiskTrends")
       THEN /\ dashFetch' = "threw"
            /\ dashIsLoading' = FALSE
       ELSE /\ dashFetch' = "pending"
            /\ UNCHANGED dashIsLoading
    /\ UNCHANGED <<stats, trends, backendStats, backendTrends, toasts,
                   exceptDash>>

DigitChars == <<"0","1","2","3","4","5","6","7","8","9">>

\* decimal digits of a natural number
RECURSIVE Digits(_)
Digits(n) ==
    IF n < 10 THEN <<DigitChars[n + 1]>>
    ELSE Digits(n \div 10) \o <<DigitChars[(n % 10) + 1]>>

\* the three digits of a group after the first
GroupOf3(n) ==
    <<DigitChars[(n \div 100) + 1], DigitChars[((n \div 10) % 10) + 1],
      DigitChars[(n % 10) + 1]>>

\* Number.prototype.toLocaleString() of a natural number (en-US grouping)
RECURSIVE toLocaleString(_)
toLocaleString(n) ==
    IF n < 1000 THEN Digits(n)
    ELSE toLocaleString(n \div 1000) \o <<",">> \o GroupOf3(n % 1000)

\* the colors table of getColorClasses
ColorClasses ==
    [blue   |-> "bg-blue-50 text-blue-600 dark:bg-blue-900/20 dark:text-blue-400",
     red    |-> "bg-red-50 text-red-600 dark:bg-red-900/20 dark:text-red-400",
     orange |-> "bg-orange-50 text-orange-600 dark:bg-orange-900/20 dark:text-orange-400",
     green  |-> "bg-green-50 text-green-600 dark:bg-green-900/20 dark:text-green-400"]

\* getColorClasses(color): colors[color] || colors.blue
getColorClasses(color) ==
    IF color \in DOMAIN ColorClasses THEN ColorClasses[color] ELSE ColorClasses.blue

\* statCards[1], the 'High Risk Users' card, as rendered
HighRiskUsersCard ==
    [title |-> "High Risk Users",
     value |-> toLocaleString(stats.high_risk_users),
     iconClasses |-> getColorClasses("red")]

\* the stat cards exist only in the non-loading render
DashRendered == ~dashIsLoading

-----------------------------------------------------------------------------
(* Score banding helpers of the four components (scores in tenths) *)

MaxScoreTenths == 500

Tenths(n) == n * 10

\* Users.tsx getRiskScoreColor
getRiskScoreColor(s) ==
    IF s >= Tenths(40) THEN "text-red-600 dark:text-red-400"
    ELSE IF s >= Tenths(30) THEN "text-orange-600 dark:text-orange-400"
    ELSE IF s >= Tenths(20) THEN "text-yellow-600 dark:text-yellow-400"
    ELSE "text-green-600 dark:text-green-400"

\* UserDetail.tsx getRiskScoreColor
getRiskScoreColorDetail(s) ==
    IF s >= Tenths(40)
    THEN "text-red-600 dark:text-red-400 bg-red-50 dark:bg-red-900/20"
    ELSE IF s >= Tenths(30)
    THEN "text-orange-600 dark:text-orange-400 bg-orange-50 dark:bg-orange-900/20"
    ELSE IF s >= Tenths(20)
    THEN "text-yellow-600 dark:text-yellow-400 bg-yellow-50 dark:bg-yellow-900/20"
    ELSE "text-green-600 dark:text-green-400 bg-green-50 dark:bg-green-900/20"

\* RiskSimulator getRiskColor
getRiskColor(s) ==
    IF s >= Tenths(40) THEN "text-red-600 bg-red-50 border-red-200"
    ELSE IF s >= Tenths(30) THEN "text-orange-600 bg-orange-50 border-orange-200"
    ELSE IF s >= Tenths(20) THEN "text-yellow-600 bg-yellow-50 border-yellow-200"
    ELSE "text-green-600 bg-green-50 border-green-200"

\* mutant of getPriorityIcon: the comparison is strict
getPriorityIconStrict(s) ==
    IF s > Tenths(40) THEN "AlertTriangle text-red-600"
    ELSE "TrendingUp text-orange-600"

\* Recommendations getPriorityIcon: the icon and its colour class
getPriorityIcon(s) ==
    IF s >= Tenths(40) THEN "AlertTriangle text-red-600"
    ELSE "TrendingUp text-orange-600"

\* the colour a class string of the helpers above paints with
ColourOf(classes) ==
    CASE classes \in { getRiskScoreColor(Tenths(40)),
                       getRiskScoreColorDetail(Tenths(40)),
                       getRiskColor(Tenths(40)),
                       "AlertTriangle text-red-600" }        -> "red"
      [] classes \in { getRiskScoreColor(Tenths(30)),
                       getRiskScoreColorDetail(Tenths(30)),
                       getRiskColor(Tenths(30)),
                       "TrendingUp text-orange-600" }        -> "orange"
      [] classes \in { getRiskScoreColor(Tenths(20)),
                       getRiskScoreColorDetail(Tenths(20)),
                       getRiskColor(Tenths(20)) }            -> "yellow"
      [] classes \in { getRiskScoreColor(0),
                       getRiskScoreColorDetail(0),
                       getRiskColor(0) }                     -> "green"
      [] OTHER -> "none"

BandInit ==
    /\ score = 0
    /\ scoreClasses = [c \in {"Users", "UserDetail", "RiskSimulator",
                              "Recommendations"} |-> "unrendered"]

\* each component renders the score through its own helper
RenderScore ==
    /\ scoreClasses["Users"] = "unrendered"
    /\ scoreClasses' =
          [Users           |-> getRiskScoreColor(score),
           UserDetail      |-> getRiskScoreColorDetail(score),
           RiskSimulator   |-> getRiskColor(score),
           Recommendations |-> getPriorityIcon(score)]
    /\ UNCHANGED <<score, toasts, exceptBand>>

-----------------------------------------------------------------------------
(* Routing: the route table of App, the guard and the session *)

\* useAuth().user: null without a session, else the user's name and role
NoSession == [kind |-> "null"]

SessionUsers == [name : {"alice", "bob"}, role : {"admin", "analyst"}]

\* URL paths as sequences of segments: "/" is <<>>, "/users/7" is <<"users","7">>
pLogin           == <<"login">>
pRegister        == <<"register">>
pRoot            == <<>>
pDashboard       == <<"dashboard">>
pUsers           == <<"users">>
pUserDetail      == <<"users", ":id">>
pRecommendations == <<"recommendations">>
pSettings        == <<"settings">>

\* mutant of AppRoutes: the settings route sits beside the public routes
AppRoutesSettingsPublic == <<
    [path |-> pLogin,           element |-> "Login",           guarded |-> FALSE],
    [path |-> pRegister,        element |-> "Register",        guarded |-> FALSE],
    [path |-> pRoot,            element |-> "Navigate",        guarded |-> FALSE],
    [path |-> pDashboard,       element |-> "Dashboard",       guarded |-> TRUE],
    [path |-> pUsers,           element |-> "Users",           guarded |-> TRUE],
    [path |-> pUserDetail,      element |-> "UserDetail",      guarded |-> TRUE],
    [path |-> pRecommendations, element |-> "Recommendations", guarded |-> TRUE],
    [path |-> pSettings,        element |-> "Settings",        guarded |-> FALSE] >>

\* <Routes> of App: guarded routes are the children of the layout route
\* <Route element={<ProtectedRoute><Layout /></ProtectedRoute>}>
AppRoutes == <<
    [path |-> pLogin,           element |-> "Login",           guarded |-> FALSE],
    [path |-> pRegister,        element |-> "Register",        guarded |-> FALSE],
    [path |-> pRoot,            element |-> "Navigate",        guarded |-> FALSE],
    [path |-> pDashboard,       element |-> "Dashboard",       guarded |-> TRUE],
    [path |-> pUsers,           element |-> "Users",           guarded |-> TRUE],
    [path |-> pUserDetail,      element |-> "UserDetail",      guarded |-> TRUE],
    [path |-> pRecommendations, element |-> "Recommendations", guarded |-> TRUE],
    [path |-> pSettings,        element |-> "Settings",        guarded |-> TRUE] >>

\* a route pattern matches a path segment by segment; ":id" matches any segment
MatchesPath(pattern, path) ==
    /\ Len(pattern) = Len(path)
    /\ \A i \in 1..Len(pattern) : pattern[i] = ":id" \/ pattern[i] = path[i]

Matching(path) == { i \in DOMAIN AppRoutes : MatchesPath(AppRoutes[i].path, path) }

\* ProtectedRoute: without a session it renders a redirect to the login screen
GuardRedirects(route, s) == route.guarded /\ s = NoSession

\* the location the router settles on for a requested path: "/" redirects to
\* /dashboard (<Navigate to="/dashboard" replace />), a guarded route without
\* a session redirects to /login
ResolvePath(path, s) ==
    LET target == IF path = pRoot THEN pDashboard ELSE path
    IN  IF Matching(target) = {} THEN target
        ELSE LET r == AppRoutes[CHOOSE i \in Matching(target) : TRUE]
             IN  IF GuardRedirects(r, s) THEN pLogin ELSE target

\* the page element rendered at a settled location
PageAt(path) ==
    IF Matching(path) = {} THEN "nothing"
    ELSE AppRoutes[CHOOSE i \in Matching(path) : TRUE].element

RenderedPage == PageAt(location)

DataPages == {"Dashboard", "Users", "UserDetail", "Recommendations", "Settings"}

\* paths a user may enter or follow a link to
NavPaths ==
    { pRoot, pLogin, pRegister, pDashboard, pUsers, <<"users", "1">>,
      <<"users", "2">>, <<"users", "3">>, pRecommendations, pSettings,
      <<"admin">>,
      <<"users", "1", "edit">> }

RouteInit ==
    /\ session = NoSession
    /\ location = pLogin
    /\ lastNav = pLogin
    /\ sidebarOpen = FALSE

\* navigation to a path (a link of the layout closes the sidebar; a typed URL
\* reloads the application, whose session is rehydrated)
Navigate(path) ==
    /\ lastNav' = path
    /\ location' = ResolvePath(path, session)
    /\ sidebarOpen' = FALSE
    /\ UNCHANGED <<session, toasts, exceptRoute>>

\* login on the login screen creates the session
Login(u) ==
    /\ RenderedPage = "Login"
    /\ session = NoSession
    /\ session' = u
    /\ UNCHANGED <<location, lastNav, sidebarOpen, toasts, exceptRoute>>

\* Logout button of the layout: logout() clears the session; the guard, which
\* renders the layout, then redirects
Logout ==
    /\ RenderedPage \in DataPages
    /\ session' = NoSession
    /\ location' = ResolvePath(location, NoSession)
    /\ sidebarOpen' = FALSE
    /\ UNCHANGED <<lastNav, toasts, exceptRoute>>

\* menu button of the header (setSidebarOpen(true)); X button and overlay
\* (setSidebarOpen(false))
SetSidebarOpen(b) ==
    /\ RenderedPage \in DataPages
    /\ sidebarOpen' = b
    /\ UNCHANGED <<session, location, lastNav, toasts, exceptRoute>>

-----------------------------------------------------------------------------
(* HTTP: the axios instance of the API client, the riskAPI functions and    *)
(* the requests they send                                                   *)

MaxRequests == 2

\* values of localStorage under 'token': <<>> when the key is absent
StoredTokens == {<<>>, <<"tok1">>}

\* localStorage.getItem('token') inside a template literal: null prints "null"
TokenText(ls) == IF ls = <<>> THEN "null" ELSE ls[1]

\* `Bearer ${localStorage.getItem('token')}`
BearerOf(ls) == <<"Bearer", " ", TokenText(ls)>>

\* axios.create({ baseURL, headers }): no interceptor is installed and no
\* Authorization header is configured
axiosInstance ==
    [baseURL |-> <<"http://localhost:5000", "api">>,
     headers |-> { <<"Content-Type", <<"application/json">>>> }]

NoBody == [kind |-> "none"]

ObjectOf(r) == [kind |-> "object", value |-> r]

\* user IDs handed to getUserById and updateRiskScore
UserIds == {"1", "2"}

\* bodies the backend may answer a riskAPI function with
BodiesOf(fn) ==
    CASE fn = "getUserRiskScores" ->
            { ArrayOf(<<>>),
              ArrayOf(<<CHOOSE u \in UserPool : u.user_id = 2>>) }
      [] fn = "getUserById" ->
            { ObjectOf(CHOOSE u \in UserPool : u.user_id = 1),
              ObjectOf(CHOOSE u \in UserPool : u.user_id = 2) }
      [] fn = "updateRiskScore" ->
            { ObjectOf([success |-> TRUE, message |-> "updated"]),
              ObjectOf([success |-> FALSE, message |-> "unknown user"]) }

NetInit ==
    /\ calls = <<>>
    /\ requests = <<>>

\* the body shared by the three riskAPI functions: one axiosInstance request,
\* awaited
Invoke(fn, params, method, url, data) ==
    /\ Len(requests) < MaxRequests
    /\ calls' = Append(calls, [fn |-> fn, params |-> params,
                               status |-> "pending", value |-> NoBody])
    /\ requests' = Append(requests,
          [via |-> "axios", method |-> method,
           url |-> axiosInstance.baseURL \o url,
           headers |-> axiosInstance.headers, data |-> data,
           origin |-> "client", call |-> Len(calls) + 1,
           status |-> "pending", body |-> NoBody])
    /\ UNCHANGED <<localStorage, toasts, exceptNet>>

\* riskAPI.getUserRiskScores(): axiosInstance.get('/users/risk-scores')
InvokeGetUserRiskScores ==
    Invoke("getUserRiskScores", <<>>, "GET", <<"users", "risk-scores">>, NoBody)

\* riskAPI.getUserById(userId): axiosInstance.get(`/users/${userId}`)
InvokeGetUserById(userId) ==
    Invoke("getUserById", <<userId>>, "GET", <<"users", userId>>, NoBody)

\* riskAPI.updateRiskScore(userId, newScore):
\* axiosInstance.put(`/users/${userId}/update-score`, { score: newScore })
InvokeUpdateRiskScore(userId, newScore) ==
    Invoke("updateRiskScore", <<userId>>, "PUT",
           <<"users", userId, "update-score">>, ObjectOf([score |-> newScore]))

\* the request of a riskAPI function is answered with a success status: the
\* function returns response.data
HttpRespond(i, body) ==
    /\ i \in 1..Len(requests)
    /\ requests[i].via = "axios"
    /\ requests[i].status = "pending"
    /\ body \in BodiesOf(calls[requests[i].call].fn)
    /\ requests' = [requests EXCEPT ![i].status = "ok", ![i].body = body]
    /\ calls' = [calls EXCEPT
                   ![requests[i].call].status = "fulfilled",
                   ![requests[i].call].value =
                        DataOf([kind |-> "response", data |-> body])]
    /\ UNCHANGED <<localStorage, toasts, exceptNet>>

\* mutant of HttpFail: the failed request is sent once more
HttpFailRetries(i) ==
    /\ i \in 1..Len(requests)
    /\ requests[i].via = "axios"
    /\ requests[i].status = "pending"
    /\ Len(requests) <= MaxRequests
    /\ requests' = Append([requests EXCEPT ![i].status = "failed"], requests[i])
    /\ UNCHANGED <<calls, localStorage, toasts, exceptNet>>

\* the request of a riskAPI function fails (transport error or a status
\* outside 2xx): axios rejects, the function has no catch, its promise rejects
HttpFail(i) ==
    /\ i \in 1..Len(requests)
    /\ requests[i].via = "axios"
    /\ requests[i].status = "pending"
    /\ requests' = [requests EXCEPT ![i].status = "failed"]
    /\ calls' = [calls EXCEPT ![requests[i].call].status = "rejected",
                              ![requests[i].call].value = [kind |-> "error"]]
    /\ UNCHANGED <<localStorage, toasts, exceptNet>>

-----------------------------------------------------------------------------
(* Recommendations page *)

\* one Recommendation of the list (risk_score in tenths)
RecItem ==
    [user_id |-> 2, user_name |-> "bob", risk_score |-> 431,
     risk_level |-> "Critical", recommendations |-> ArrayOf(<<"Enable MFA">>)]

\* a Recommendation without its list of recommended actions
RecItemWithoutActions ==
    [user_id |-> 3, user_name |-> "bab", risk_score |-> 405,
     risk_level |-> "Critical", recommendations |-> Undefined]

RecommendationsOf(n, list) ==
    [kind |-> "object", total_high_risk_users |-> n, recommendations |-> list]

\* bodies of the shape RecommendationsData
WellFormedBodies ==
    { RecommendationsOf(0, ArrayOf(<<>>)),
      RecommendationsOf(1, ArrayOf(<<RecItem>>)) }

\* a body that is not JSON: response.json() rejects
NotJson == [kind |-> "notjson"]

\* bodies of another shape: a record without its recommendations list, a
\* list entry without its actions, an array, JSON null, not JSON at all
MalformedBodies ==
    { [kind |-> "object", total_high_risk_users |-> 1],
      RecommendationsOf(1, ArrayOf(<<RecItemWithoutActions>>)),
      ArrayOf(<<>>),
      Null,
      NotJson }

RecBodies == WellFormedBodies \cup MalformedBodies

\* `data && ...`
Truthy(v) == v.kind \notin {"null", "undefined"}

\* `data.recommendations`
RecommendationsProp(v) ==
    IF v.kind = "object" /\ "recommendations" \in DOMAIN v
    THEN v.recommendations
    ELSE Undefined

\* the non-loading render throws a TypeError: data.recommendations.reduce and
\* data.recommendations.length on a value that is no array, or
\* rec.recommendations.length on an entry without its list
RecRenderThrows(d) ==
    /\ Truthy(d)
    /\ \/ ~IsArray(RecommendationsProp(d))
       \/ \E k \in 1..Len(RecommendationsProp(d).items) :
             ~IsArray(RecommendationsProp(d).items[k].recommendations)

RecInit ==
    /\ recData = Null
    /\ recIsLoading = TRUE
    /\ recIsRefreshing = FALSE
    /\ recFetch = "init"
    /\ recCrashed = FALSE

\* mutant of RecRendered: the header is rendered during the initial load too
RecRenderedWhileLoading == ~recCrashed

\* the header with the Refresh button exists only in the non-loading render
RecRendered == ~recIsLoading /\ ~recCrashed

\* fetch('http://localhost:8000/api/recommendations', { headers })
RecRequest(origin) ==
    [via |-> "fetch", method |-> "GET",
     url |-> <<"http://localhost:8000", "api", "recommendations">>,
     headers |-> { <<"Authorization", BearerOf(localStorage)>> },
     data |-> NoBody, origin |-> origin, call |-> 0,
     status |-> "pending", body |-> NoBody]

\* mount effect: fetchRecommendations() up to its await
RecMount ==
    /\ recFetch = "init"
    /\ recFetch' = "mounted"
    /\ requests' = Append(requests, RecRequest("mount"))
    /\ UNCHANGED <<recData, recIsLoading, recIsRefreshing, recCrashed,
                   localStorage, calls, toasts, exceptRec>>

\* <button onClick={handleRefresh} disabled={isRefreshing}>
RefreshDisabled == recIsRefreshing

\* handleRefresh up to its await: setIsRefreshing(true), fetchRecommendations()
HandleRefresh ==
    /\ RecRendered
    /\ ~RefreshDisabled
    /\ Len(requests) < MaxRequests
    /\ recIsRefreshing' = TRUE
    /\ requests' = Append(requests, RecRequest("refresh"))
    /\ UNCHANGED <<recData, recIsLoading, recFetch, recCrashed,
                   localStorage, calls, toasts, exceptRec>>

ErrorToast(text) == [kind |-> "error", text |-> text]

SuccessToast(text) == [kind |-> "success", text |-> text]

\* what follows the await of fetchRecommendations in handleRefresh:
\* toast.success('Recommendations updated')
AfterRefresh(origin) ==
    IF origin = "refresh" THEN <<SuccessToast("Recommendations updated")>>
    ELSE <<>>

\* the finally branch of fetchRecommendations and the render that follows
RecFinally(i, status, body, data) ==
    /\ requests' = [requests EXCEPT ![i].status = status, ![i].body = body]
    /\ recData' = data
    /\ recIsLoading' = FALSE
    /\ recIsRefreshing' = FALSE
    /\ recCrashed' = (recCrashed \/ RecRenderThrows(data))
    /\ UNCHANGED <<recFetch, localStorage, calls, exceptRec>>

\* fetchRecommendations after the await, response.ok: setData(await
\* response.json()); a body that is not JSON makes json() reject, which the
\* catch reports
RecFetchOk(i, body) ==
    /\ i \in 1..Len(requests)
    /\ requests[i].via = "fetch"
    /\ requests[i].status = "pending"
    /\ IF body = NotJson
       THEN /\ RecFinally(i, "ok", body, recData)
            /\ toasts' = toasts
                   \o <<ErrorToast("Failed to load recommendations")>>
                   \o AfterRefresh(requests[i].origin)
       ELSE /\ RecFinally(i, "ok", body, body)
            /\ toasts' = toasts \o AfterRefresh(requests[i].origin)

\* fetchRecommendations after the await, a status outside 2xx: response.ok is
\* false, nothing is stored and nothing is reported
RecFetchNotOk(i) ==
    /\ i \in 1..Len(requests)
    /\ requests[i].via = "fetch"
    /\ requests[i].status = "pending"
    /\ RecFinally(i, "notok", NoBody, recData)
    /\ toasts' = toasts \o AfterRefresh(requests[i].origin)

\* fetchRecommendations after the await, fetch rejected (transport failure):
\* console.error and toast.error
RecFetchReject(i) ==
    /\ i \in 1..Len(requests)
    /\ requests[i].via = "fetch"
    /\ requests[i].status = "pending"
    /\ RecFinally(i, "failed", NoBody, recData)
    /\ toasts' = toasts
           \o <<ErrorToast("Failed to load recommendations")>>
           \o AfterRefresh(requests[i].origin)

-----------------------------------------------------------------------------
(* UserDetail page *)

DetailInit ==
    /\ activities = ArrayOf(<<>>)
    /\ detailIsLoading = TRUE
    /\ detailUser = Null
    /\ detailFetch = "init"

\* useParams().id: the second segment of /users/:id
RouteId == location[2]

\* parseInt(id) for the ids of the navigable detail paths
parseInt(id) ==
    CASE id = "1" -> 1
      [] id = "2" -> 2
      [] id = "3" -> 3

\* fetchUserData up to its await.  The array literal handed to Promise.all
\* calls riskAPI.getUserActivity(parseInt(id)) first; a call that throws is
\* caught (console.error) and finally clears isLoading, before
\* riskAPI.getUserRiskScores() is reached.
fetchUserData ==
    IF CallThrows("getUserActivity")
    THEN /\ detailFetch' = "threw"
         /\ detailIsLoading' = FALSE
    ELSE /\ detailFetch' = "pending"
         /\ UNCHANGED detailIsLoading

\* mount at /users/:id: the [id] effect runs, id is set
DetailMount ==
    /\ RenderedPage = "UserDetail"
    /\ detailFetch = "init"
    /\ fetchUserData
    /\ UNCHANGED <<activities, detailUser, routeVars, toasts, exceptDetail>>

\* the route parameter changes under the mounted component (history
\* navigation from one detail URL to another): the [id] effect runs again
DetailParamChange(id) ==
    /\ RenderedPage = "UserDetail"
    /\ detailFetch # "init"
    /\ id # RouteId
    /\ location' = <<"users", id>>
    /\ lastNav' = <<"users", id>>
    /\ fetchUserData
    /\ UNCHANGED <<activities, detailUser, session, sidebarOpen, toasts,
                   exceptDetail>>

\* what the component returns: the spinner, the 'User not found' view or the
\* detail view
DetailView ==
    IF detailIsLoading THEN "loading"
    ELSE IF ~Truthy(detailUser) THEN "not-found"
    ELSE "detail"

-----------------------------------------------------------------------------
(* Users page, render by render: a state change is rendered first, the       *)
(* filter effect (useEffect on [searchTerm, selectedFilter, users]) runs     *)
(* after that render and its setFilteredUsers causes the next one            *)

\* the effect of the last render has not run yet; React runs it before it
\* handles another event
FilterEffectDue ==
    filteredUsers # filterUsers(users.items, searchTerm, selectedFilter)

\* onChange of the search box: setSearchTerm(e.target.value) and the render
\* that follows
SearchTermRender(t) ==
    /\ UsersRendered
    /\ ~FilterEffectDue
    /\ searchTerm' = t
    /\ UNCHANGED <<users, filteredUsers, usersIsLoading, selectedFilter,
                   usersFetch, usersCrashed, backendUsers, toasts,
                   exceptUsers>>

\* onChange of the select: setSelectedFilter(e.target.value) and the render
\* that follows
SelectedFilterRender(f) ==
    /\ UsersRendered
    /\ ~FilterEffectDue
    /\ selectedFilter' = f
    /\ UNCHANGED <<users, filteredUsers, usersIsLoading, searchTerm,
                   usersFetch, usersCrashed, backendUsers, toasts,
                   exceptUsers>>

\* the filter effect after a render: filterUsers() and the render its
\* setFilteredUsers causes
FilterEffect ==
    /\ UsersRendered
    /\ FilterEffectDue
    /\ filteredUsers' = filterUsers(users.items, searchTerm, selectedFilter)
    /\ UNCHANGED <<users, usersIsLoading, searchTerm, selectedFilter,
                   usersFetch, usersCrashed, backendUsers, toasts,
                   exceptUsers>>

-----------------------------------------------------------------------------
(* Component lifetime: a page is left while its fetch is in flight.  No      *)
(* effect returns a cleanup function and no fetch takes an abort signal, so  *)
(* the continuation of the fetch runs as written and calls the state         *)
(* setters of the unmounted component.                                       *)

BoolOf(b) == [kind |-> "boolean", value |-> b]

SetterCall(component, setter, value) ==
    [component |-> component, setter |-> setter, value |-> value]

FetchingPages == {"Users", "Dashboard", "UserDetail", "Recommendations"}

\* the mount effect of the page has run
MountEffectRan(page) ==
    CASE page = "Users"           -> usersFetch # "init"
      [] page = "Dashboard"       -> dashFetch # "init"
      [] page = "UserDetail"      -> detailFetch # "init"
      [] page = "Recommendations" -> recFetch # "init"

\* what the late continuations leave alone
exceptLate == <<simVars, dashVars, bandVars, routeVars, detailVars, unmounted,
                moreVars>>

\* a link of the layout leads from the mounted page to /settings: the page
\* component is unmounted
LeavePage ==
    /\ RenderedPage \in FetchingPages
    /\ MountEffectRan(RenderedPage)
    /\ unmounted' = unmounted \cup {RenderedPage}
    /\ location' = pSettings
    /\ lastNav' = pSettings
    /\ sidebarOpen' = FALSE
    /\ UNCHANGED <<session, lateUpdates, usersVars, simVars, dashVars,
                   bandVars, netVars, recVars, detailVars, moreVars, toasts>>

\* mutant of UsersFetchResolveLate: the answer for an unmounted page is
\* dropped
UsersFetchResolveIgnored ==
    /\ "Users" \in unmounted
    /\ usersFetch = "pending"
    /\ usersFetch' = "resolved"
    /\ UNCHANGED <<users, filteredUsers, usersIsLoading, searchTerm,
                   selectedFilter, usersCrashed, backendUsers, lateUpdates,
                   netVars, recVars, toasts, exceptLate>>

\* fetchUsers after the await, the request succeeded, the page unmounted:
\* setUsers(response.data) and setIsLoading(false) are called
UsersFetchResolveLate ==
    /\ "Users" \in unmounted
    /\ usersFetch = "pending"
    /\ usersFetch' = "resolved"
    /\ lateUpdates' = lateUpdates \o
          << SetterCall("Users", "setUsers",
                        DataOf(getUserRiskScores(backendUsers))),
             SetterCall("Users", "setIsLoading", BoolOf(FALSE)) >>
    /\ UNCHANGED <<users, filteredUsers, usersIsLoading, searchTerm,
                   selectedFilter, usersCrashed, backendUsers,
                   netVars, recVars, toasts, exceptLate>>

\* fetchUsers after the await, the request failed, the page unmounted:
\* console.error and setIsLoading(false)
UsersFetchRejectLate ==
    /\ "Users" \in unmounted
    /\ usersFetch = "pending"
    /\ usersFetch' = "rejected"
    /\ lateUpdates' = Append(lateUpdates,
                             SetterCall("Users", "setIsLoading", BoolOf(FALSE)))
    /\ UNCHANGED <<users, filteredUsers, usersIsLoading, searchTerm,
                   selectedFilter, usersCrashed, backendUsers,
                   netVars, recVars, toasts, exceptLate>>

\* the rest of fetchRecommendations, and of handleRefresh, when the page is
\* unmounted: the setters of the finally branch are called and the toasts
\* are shown
RecLate(i, status, body, stored, shown) ==
    /\ "Recommendations" \in unmounted
    /\ i \in 1..Len(requests)
    /\ requests[i].via = "fetch"
    /\ requests[i].status = "pending"
    /\ requests' = [requests EXCEPT ![i].status = status, ![i].body = body]
    /\ lateUpdates' = lateUpdates \o stored \o
          << SetterCall("Recommendations", "setIsLoading", BoolOf(FALSE)),
             SetterCall("Recommendations", "setIsRefreshing", BoolOf(FALSE)) >>
    /\ toasts' = toasts \o shown \o AfterRefresh(requests[i].origin)
    /\ UNCHANGED <<recVars, localStorage, calls, usersVars, exceptLate>>

\* response.ok on an unmounted page: setData(await response.json())
RecFetchOkLate(i, body) ==
    IF body = NotJson
    THEN RecLate(i, "ok", body, <<>>,
                 <<ErrorToast("Failed to load recommendations")>>)
    ELSE RecLate(i, "ok", body,
                 <<SetterCall("Recommendations", "setData", body)>>, <<>>)

\* a status outside 2xx on an unmounted page
RecFetchNotOkLate(i) == RecLate(i, "notok", NoBody, <<>>, <<>>)

\* a rejected fetch on an unmounted page: console.error and toast.error
RecFetchRejectLate(i) ==
    RecLate(i, "failed", NoBody, <<>>,
            <<ErrorToast("Failed to load recommendations")>>)

-----------------------------------------------------------------------------
(* Settings page *)

MaxSaves == 2

MaxEdited == 2

\* useState({profile, security, notifications, system}): an object of
\* objects, each a function from field names to values
settingsInitial ==
    [profile |->
        [name |-> "John Doe", email |-> "john@example.com", role |-> "admin"],
     security |->
        [riskThreshold |-> 30, alertFrequency |-> "immediate",
         mfaEnabled |-> TRUE, sessionTimeout |-> 60],
     notifications |->
        [emailAlerts |-> TRUE, pushNotifications |-> FALSE,
         weeklyReports |-> TRUE, criticalAlerts |-> TRUE],
     system |->
        [dataRetention |-> 90, logLevel |-> "info", apiRateLimit |-> 1000]]

\* const tabs: the ids of the four tabs
tabs == <<"profile", "security", "notifications", "system">>

TabIds == { tabs[i] : i \in DOMAIN tabs }

\* values the inputs of a tab hand to handleInputChange: typed text, an
\* option of a select, parseInt of a range or number input (per input, the
\* initial value and one other)
SettingsInputs ==
    [profile |->
        [name  |-> {"John Doe", "Jane Roe"},
         email |-> {"john@example.com", "jane@example.com"},
         role  |-> {"admin", "viewer"}],
     security |->
        [riskThreshold  |-> {30, 50},
         alertFrequency |-> {"immediate", "weekly"},
         sessionTimeout |-> {15, 60}],
     notifications |-> <<>>,
     system |->
        [dataRetention |-> {30, 90},
         logLevel      |-> {"debug", "info"},
         apiRateLimit  |-> {100, 1000}]]

\* the toggle buttons: the MFA switch and one switch per notification key
\* (Object.entries(settings.notifications))
SettingsToggles ==
    [profile |-> {}, security |-> {"mfaEnabled"},
     notifications |-> DOMAIN settingsInitial.notifications, system |-> {}]

\* the fields that differ from the values the page starts with
Edited(s) ==
    { p \in UNION { {sec} \X DOMAIN s[sec] : sec \in DOMAIN s } :
        s[p[1]][p[2]] # settingsInitial[p[1]][p[2]] }

SettingsInit ==
    /\ activeTab = "profile"
    /\ settingsIsLoading = FALSE
    /\ settings = settingsInitial
    /\ saveTimers = 0
    /\ saves = 0

\* what a handler of the Settings page leaves alone
exceptSettings ==
    <<firstVars, netVars, recVars, detailVars, lifeVars, parVars>>

\* onClick of a tab button: setActiveTab(tab.id)
SetActiveTab(t) ==
    /\ RenderedPage = "Settings"
    /\ activeTab' = t
    /\ UNCHANGED <<settingsIsLoading, settings, saveTimers, saves, toasts,
                   exceptSettings>>

\* mutant of SettingsHandleInputChange: the update is laid over the initial
\* settings instead of prev
SettingsChangeOverInitial(section, field, value) ==
    /\ RenderedPage = "Settings"
    /\ activeTab = section
    /\ settings' =
          SpreadMerge(settingsInitial,
              section :> SpreadMerge(settingsInitial[section], field :> value))
    /\ Cardinality(Edited(settings')) <= MaxEdited
    /\ UNCHANGED <<activeTab, settingsIsLoading, saveTimers, saves, toasts,
                   exceptSettings>>

\* handleInputChange(section, field, value):
\* setSettings(prev => ({...prev, [section]: {...prev[section], [field]: value}}))
\* The inputs that call it are those of the active tab.
SettingsHandleInputChange(section, field, value) ==
    /\ RenderedPage = "Settings"
    /\ activeTab = section
    /\ settings' =
          SpreadMerge(settings,
              section :> SpreadMerge(settings[section], field :> value))
    /\ Cardinality(Edited(settings')) <= MaxEdited
    /\ UNCHANGED <<activeTab, settingsIsLoading, saveTimers, saves, toasts,
                   exceptSettings>>

\* onChange of a text, select, range or number input of the active tab
SettingsInput ==
    \E section \in TabIds :
        \E field \in DOMAIN SettingsInputs[section] :
            \E value \in SettingsInputs[section][field] :
                SettingsHandleInputChange(section, field, value)

\* onClick of a switch: handleInputChange(section, key, !value)
SettingsToggle ==
    \E section \in TabIds :
        \E field \in SettingsToggles[section] :
            SettingsHandleInputChange(section, field, ~settings[section][field])

\* <button onClick={handleSave} disabled={isLoading}>
SaveDisabled == settingsIsLoading

\* mutant of HandleSave: the button is never disabled
HandleSaveNeverDisabled ==
    /\ RenderedPage = "Settings"
    /\ saves < MaxSaves
    /\ settingsIsLoading' = TRUE
    /\ saveTimers' = saveTimers + 1
    /\ saves' = saves + 1
    /\ UNCHANGED <<activeTab, settings, toasts, exceptSettings>>

\* handleSave up to its await: setIsLoading(true), then
\* setTimeout(resolve, 1000) is armed
HandleSave ==
    /\ RenderedPage = "Settings"
    /\ ~SaveDisabled
    /\ saves < MaxSaves
    /\ settingsIsLoading' = TRUE
    /\ saveTimers' = saveTimers + 1
    /\ saves' = saves + 1
    /\ UNCHANGED <<activeTab, settings, toasts, exceptSettings>>

\* the timer fires and handleSave continues: toast.success(...),
\* setIsLoading(false)
SaveTimerFires ==
    /\ saveTimers > 0
    /\ saveTimers' = saveTimers - 1
    /\ toasts' = Append(toasts, SuccessToast("Settings saved successfully!"))
    /\ settingsIsLoading' = FALSE
    /\ UNCHANGED <<activeTab, settings, saves, exceptSettings>>

-----------------------------------------------------------------------------
(* UserDetail and Dashboard with the requests in flight.  Both pages call   *)
(* four riskAPI functions under Promise.all; here the client offers         *)
(* getUserActivity, getDashboardStats and getRiskTrends and every function  *)
(* resolves with the axios response, as the pages use them.                 *)

MaxFetches == 2

\* JavaScript strings and numbers as values of a property
JsString(s) == [kind |-> "string", text |-> s]

JsNumber(n) == [kind |-> "number", value |-> n]

\* a === b on such values: the types are compared first
StrictEquals(a, b) == a.kind = b.kind /\ a = b

\* records of the risk-score list: UserRiskData declares user_id a string;
\* a backend that serialises a numeric key sends a number
DetailUserPool ==
    { [kind |-> "object", user_id |-> JsString("1"), name |-> "Al B"],
      [kind |-> "object", user_id |-> JsString("2"), name |-> "bob"],
      [kind |-> "object", user_id |-> JsNumber(1), name |-> "Al B"],
      [kind |-> "object", user_id |-> JsNumber(2), name |-> "bob"] }

DetailUserLists ==
    { l \in UNION { [1..n -> DetailUserPool] : n \in 0..2 } :
        \A i, j \in DOMAIN l : i # j => l[i] # l[j] }

\* riskAPI.getUserActivity(userId) as UserDetail uses it: the promise
\* resolves with a response that carries the activity log of that user
getUserActivity(userId) ==
    [kind |-> "response",
     data |-> ArrayOf(<< [user_id |-> userId, action |-> "login"] >>)]

\* usersResponse.data.find((u) => u.user_id === parseInt(id)): the first
\* match, undefined without one
FindUser(list, id) ==
    LET hits == SelectSeq(list,
                    LAMBDA u : StrictEquals(u.user_id, JsNumber(parseInt(id))))
    IN  IF hits = <<>> THEN Undefined ELSE hits[1]

\* what the handlers of this section leave alone
exceptPar ==
    <<usersVars, simVars, bandVars, netVars, recVars, lifeVars, settingsVars>>

\* a run of fetchUserData up to its await: both requests are sent; the
\* closure holds the id of the render whose effect started it
DetailFetchOf(id) ==
    [id |-> id, act |-> "pending", usr |-> "pending", settled |-> FALSE]

\* mount at /users/:id: the [id] effect runs fetchUserData
DetailFetchStart ==
    /\ RenderedPage = "UserDetail"
    /\ detailFetch = "init"
    /\ detailFetch' = "pending"
    /\ detailFetches' = Append(detailFetches, DetailFetchOf(RouteId))
    /\ UNCHANGED <<activities, detailIsLoading, detailUser, routeVars,
                   dashVars, dashAnswers, toasts, exceptPar>>

\* the route parameter changes under the mounted component: the [id] effect
\* runs fetchUserData again; nothing cancels the earlier run
DetailIdChange(id) ==
    /\ RenderedPage = "UserDetail"
    /\ detailFetch # "init"
    /\ id # RouteId
    /\ Len(detailFetches) < MaxFetches
    /\ location' = <<"users", id>>
    /\ lastNav' = <<"users", id>>
    /\ detailFetches' = Append(detailFetches, DetailFetchOf(id))
    /\ UNCHANGED <<activities, detailIsLoading, detailUser, detailFetch,
                   session, sidebarOpen, dashVars, dashAnswers, toasts,
                   exceptPar>>

\* mutant of DetailResponse: the activity log is stored as soon as its own
\* response arrives
DetailResponseEager(k, which, outcome) ==
    /\ k \in DOMAIN detailFetches
    /\ detailFetches[k][which] = "pending"
    /\ LET f == detailFetches[k]
           g == [f EXCEPT ![which] = outcome]
           rejects == ~f.settled /\ outcome = "failed"
           resolves == ~f.settled /\ g.act = "ok" /\ g.usr = "ok"
       IN  /\ detailFetches' =
                [detailFetches EXCEPT
                    ![k] = [g EXCEPT !.settled = f.settled \/ rejects \/ resolves]]
           /\ activities' =
                IF which = "act" /\ outcome = "ok" /\ ~f.settled
                THEN DataOf(getUserActivity(parseInt(f.id)))
                ELSE activities
           /\ detailUser' = IF resolves THEN FindUser(backendUsers, f.id)
                            ELSE detailUser
           /\ detailIsLoading' = IF resolves \/ rejects THEN FALSE
                                 ELSE detailIsLoading
    /\ UNCHANGED <<detailFetch, routeVars, dashVars, dashAnswers, toasts,
                   exceptPar>>

\* a response of run k arrives.  Promise.all rejects with the first failure
\* (catch: console.error) and resolves when both have succeeded (find,
\* setActivities, setUser); finally clears isLoading.  A response that
\* arrives after the rejection is dropped.
DetailResponse(k, which, outcome) ==
    /\ k \in DOMAIN detailFetches
    /\ detailFetches[k][which] = "pending"
    /\ LET f == detailFetches[k]
           g == [f EXCEPT ![which] = outcome]
           rejects == ~f.settled /\ outcome = "failed"
           resolves == ~f.settled /\ g.act = "ok" /\ g.usr = "ok"
       IN  /\ detailFetches' =
                [detailFetches EXCEPT
                    ![k] = [g EXCEPT !.settled = f.settled \/ rejects \/ resolves]]
           /\ activities' =
                IF resolves THEN DataOf(getUserActivity(parseInt(f.id)))
                ELSE activities
           /\ detailUser' = IF resolves THEN FindUser(backendUsers, f.id)
                            ELSE detailUser
           /\ detailIsLoading' = IF resolves \/ rejects THEN FALSE
                                 ELSE detailIsLoading
    /\ UNCHANGED <<detailFetch, routeVars, dashVars, dashAnswers, toasts,
                   exceptPar>>

\* mount of the Dashboard: fetchDashboardData up to its await
DashFetchStart ==
    /\ RenderedPage = "Dashboard"
    /\ dashFetch = "init"
    /\ dashFetch' = "pending"
    /\ dashAnswers' = [stats |-> "pending", trends |-> "pending"]
    /\ UNCHANGED <<stats, trends, dashIsLoading, backendStats, backendTrends,
                   routeVars, detailVars, detailFetches, toasts, exceptPar>>

\* a response of fetchDashboardData arrives: as on UserDetail, with
\* setStats(statsResponse.data) and setTrends(trendsResponse.data)
DashResponse(which, outcome) ==
    /\ dashAnswers[which] = "pending"
    /\ LET g == [dashAnswers EXCEPT ![which] = outcome]
           rejects == dashFetch = "pending" /\ outcome = "failed"
           resolves == dashFetch = "pending" /\ g.stats = "ok" /\ g.trends = "ok"
       IN  /\ dashAnswers' = g
           /\ dashFetch' = IF rejects THEN "rejected"
                           ELSE IF resolves THEN "resolved" ELSE dashFetch
           /\ stats' = IF resolves THEN backendStats ELSE stats
           /\ trends' = IF resolves THEN backendTrends ELSE trends
           /\ dashIsLoading' = IF resolves \/ rejects THEN FALSE
                               ELSE dashIsLoading
    /\ UNCHANGED <<backendStats, backendTrends, routeVars, detailVars,
                   detailFetches, toasts, exceptPar>>

-----------------------------------------------------------------------------
(* Users page: the stat cards *)

\* { label: 'Total Users', value: users.length }
TotalUsersCard(u) == Len(u.items)

\* { label: 'High Risk', value: users.filter(u =>
\*     ['high', 'critical'].includes(u.risk_level.toLowerCase())).length }
HighRiskCard(u) ==
    Len(SelectSeq(u.items,
            LAMBDA x : toLowerCase(x.risk_level) \in {sHigh, sCritical}))

\* { label: 'Medium Risk', value: users.filter(u =>
\*     u.risk_level.toLowerCase() === 'medium').length }
MediumRiskCard(u) ==
    Len(SelectSeq(u.items, LAMBDA x : toLowerCase(x.risk_level) = sMedium))

\* mutant of LowRiskCard: only the level 'low' is counted
LowRiskCardLowOnly(u) ==
    Len(SelectSeq(u.items, LAMBDA x : toLowerCase(x.risk_level) = sLow))

\* { label: 'Low Risk', value: users.filter(u =>
\*     ['low', 'minimal'].includes(u.risk_level.toLowerCase())).length }
LowRiskCard(u) ==
    Len(SelectSeq(u.items,
            LAMBDA x : toLowerCase(x.risk_level) \in {sLow, sMinimal}))

\* the four values the cards show
StatCards ==
    << TotalUsersCard(users), HighRiskCard(users), MediumRiskCard(users),
       LowRiskCard(users) >>

-----------------------------------------------------------------------------
(* Every component other than the one a specification is about stays as    *)
(* constructed and is not operated.                                        *)

UsersIdle ==
    /\ UsersInit
    /\ backendUsers = <<>>

DashIdle ==
    /\ DashInit
    /\ backendStats = statsInitial
    /\ backendTrends = <<>>

NetIdle ==
    /\ NetInit
    /\ localStorage = <<>>

RecIdle == RecInit

DetailIdle == DetailInit

LifeInit ==
    /\ unmounted = {}
    /\ lateUpdates = <<>>

ParIdle ==
    /\ detailFetches = <<>>
    /\ dashAnswers = [stats |-> "init", trends |-> "init"]

SettingsIdle == SettingsInit

MoreIdle == ParIdle /\ SettingsIdle

ExtIdle == NetIdle /\ RecIdle /\ DetailIdle /\ LifeInit /\ MoreIdle

-----------------------------------------------------------------------------
(* Specification of the Users page from mount *)

InitUsers ==
    /\ UsersInit
    /\ backendUsers \in UserLists
    /\ toasts = <<>>
    /\ SimInit
    /\ DashIdle /\ BandInit /\ RouteInit
    /\ ExtIdle

NextUsers ==
    \/ UsersMount
    \/ UsersFetchResolve
    \/ UsersFetchReject
    \/ \E t \in SearchTerms : SetSearchTerm(t)
    \/ \E f \in FilterOptions : SetSelectedFilter(f)

SpecUsers == InitUsers /\ [][NextUsers]_vars

-----------------------------------------------------------------------------
(* Claims about the Users page from mount *)

\* failure notifications shown so far (toast.error)
FailureToasts == Len(SelectSeq(toasts, LAMBDA t : t.kind = "error"))

\* C1: whenever the mount-time fetch has succeeded with an array of n
\* records, the page is Ready (out of Loading, rendered) and, with the empty
\* search term and the 'all' filter, renders exactly n table rows.
C1_RowsEqualResponse ==
    usersFetch = "resolved" =>
        /\ UsersRendered
        /\ (searchTerm = <<>> /\ selectedFilter = sAll
                => RenderedRows = Len(backendUsers))

\* C2: whenever a page's fetch has failed, the page has left Loading without
\* an uncaught exception and exactly one failure notification was shown.
C2_FailureShowsOneToast ==
    usersFetch = "rejected" =>
        /\ ~usersIsLoading
        /\ ~usersCrashed
        /\ FailureToasts = 1

-----------------------------------------------------------------------------
(* Specification of filterUsers as a function of its three inputs: a Ready   *)
(* Users page holding any list of records, on which the search box and the   *)
(* select are operated.                                                      *)

InitFilter ==
    /\ \E l \in UserLists :
          /\ users = ArrayOf(l)
          /\ backendUsers = l
          /\ filteredUsers = filterUsers(l, <<>>, sAll)
    /\ usersIsLoading = FALSE
    /\ searchTerm = <<>>
    /\ selectedFilter = sAll
    /\ usersFetch = "resolved"
    /\ usersCrashed = FALSE
    /\ toasts = <<>>
    /\ SimInit
    /\ DashIdle /\ BandInit /\ RouteInit
    /\ ExtIdle

NextFilter ==
    \/ \E t \in SearchTerms : SetSearchTerm(t)
    \/ \E f \in FilterOptions : SetSelectedFilter(f)

SpecFilter == InitFilter /\ [][NextFilter]_vars

WhitespaceChars == {" ", "\t", "\n"}

IsWhitespaceOnly(s) == Len(s) > 0 /\ \A i \in 1..Len(s) : s[i] \in WhitespaceChars

\* number of positions of list that hold record u
Occurrences(list, u) == Cardinality({ i \in 1..Len(list) : list[i] = u })

\* C3: for a search term of whitespace only and the 'all' filter, the
\* filtered list contains every user of the unfiltered list.
C3_WhitespaceKeepsAll ==
    (IsWhitespaceOnly(searchTerm) /\ selectedFilter = sAll) =>
        \A i \in 1..Len(users.items) :
            Occurrences(filteredUsers, users.items[i]) =
                Occurrences(users.items, users.items[i])

\* a and b are the same string up to the case of their letters
EqualIgnoringCase(a, b) ==
    /\ Len(a) = Len(b)
    /\ \A i \in 1..Len(a) :
          \/ a[i] = b[i]
          \/ \E k \in 1..26 : {a[i], b[i]} = {Upper[k], Lower[k]}

\* C4: with a risk-level category other than 'all' selected, every row of the
\* filtered list has that level ignoring letter case, and every record of the
\* users list with that level that matches the search term is a row.
C4_LevelFilterExact ==
    selectedFilter # sAll =>
        /\ \A j \in 1..Len(filteredUsers) :
              EqualIgnoringCase(filteredUsers[j].risk_level, selectedFilter)
        /\ \A i \in 1..Len(users.items) :
              (/\ EqualIgnoringCase(users.items[i].risk_level, selectedFilter)
               /\ MatchesSearch(users.items[i], searchTerm))
                  => Occurrences(filteredUsers, users.items[i]) =
                         Occurrences(users.items, users.items[i])

\* C4 witness: 'high' is selected on a list holding a record whose level is
\* written in capitals and a record of another level; the first is a row, the
\* second is not.
C4_Witness ==
    /\ selectedFilter = sHigh
    /\ \E i \in 1..Len(users.items) :
          /\ users.items[i].risk_level = <<"H","I","G","H">>
          /\ Occurrences(filteredUsers, users.items[i]) = 1
    /\ \E i \in 1..Len(users.items) :
          /\ ~EqualIgnoringCase(users.items[i].risk_level, sHigh)
          /\ Occurrences(filteredUsers, users.items[i]) = 0

-----------------------------------------------------------------------------
(* Specification of the simulator's draft: presets and manual edits *)

InitDraft ==
    /\ SimInit
    /\ toasts = <<>>
    /\ UsersIdle /\ DashIdle /\ BandInit /\ RouteInit
    /\ ExtIdle

NextDraft ==
    \/ \E i \in PresetIndexes : ApplyPreset(i)
    \/ \E f \in EditableFields : \E v \in EditValues[f] : HandleInputChange(f, v)

SpecDraft == InitDraft /\ [][NextDraft]_vars

\* C5: a preset click changes only the fields the preset lists, each to the
\* preset's value, and leaves every other draft field at its prior value; in
\* particular 'Failed Login Attempts' (preset 3) leaves file_size as it was.
C5_PresetChangesOnlyItsFields ==
    [][\A i \in PresetIndexes :
          (lastOp' = [kind |-> "preset", index |-> i]) =>
              /\ DOMAIN formData' = DOMAIN formData
              /\ \A f \in DOMAIN formData :
                    formData'[f] = IF f \in DOMAIN presetScenarios[i].data
                                   THEN presetScenarios[i].data[f]
                                   ELSE formData[f]
              /\ (i = 3 => formData'.file_size = formData.file_size)]_vars

\* C5 witness: 'Failed Login Attempts' was the last click and file_size still
\* holds the 2048 that only 'Large Data Download' sets.
C5_Witness ==
    /\ lastOp = [kind |-> "preset", index |-> 3]
    /\ formData.file_size = 2048
    /\ formData.failed_attempts = 5

-----------------------------------------------------------------------------
(* Specification of the simulator's submission, for one mounted instance    *)
(* of the component                                                         *)

InitSim ==
    /\ SimInit
    /\ toasts = <<>>
    /\ UsersIdle /\ DashIdle /\ BandInit /\ RouteInit
    /\ ExtIdle

NextSim ==
    \/ HandleSubmitThrows
    \/ HandleSubmit
    \/ PredictResolve
    \/ PredictReject
    \/ \E i \in PresetIndexes : ApplyPreset(i)

SpecSim == InitSim /\ [][NextSim]_vars

\* every request that was sent is eventually answered or fails
FairSpecSim == SpecSim /\ WF_vars(PredictResolve \/ PredictReject)

\* C6: while a submission's request is in flight the submit control is
\* disabled, and never are two prediction requests in flight.
C6_OneRequestInFlight ==
    /\ Len(pending) <= 1
    /\ (Len(pending) = 1 => SubmitDisabled)

\* C6 witness: a request is in flight (with the draft of a preset as payload)
\* and the control is disabled.
C6_Witness ==
    /\ Len(pending) = 1
    /\ pending[1].payload.action = "download"
    /\ SubmitDisabled

LastToast == toasts[Len(toasts)]

\* C9: a failed submission leaves the displayed result as it was before, every
\* settled submission (failed or not) re-enables the submit control, and a
\* disabled control is eventually enabled again.
C9_FailureKeepsResultAndReenables ==
    /\ [][Len(toasts') > Len(toasts) =>
            /\ ~SubmitDisabled'
            /\ (toasts'[Len(toasts')].kind = "error" => result' = result)]_vars
    /\ (SubmitDisabled ~> ~SubmitDisabled)

\* C9 witness: a submission failed after an earlier one had succeeded; the
\* earlier result is still displayed and the control is enabled.
C9_Witness ==
    /\ Len(toasts) = 2
    /\ toasts[1].kind = "success"
    /\ toasts[2].kind = "error"
    /\ result \in PredictionResults
    /\ ~SubmitDisabled

-----------------------------------------------------------------------------
(* Specification of the Dashboard from mount *)

InitDash ==
    /\ DashInit
    /\ backendStats \in BackendStats
    /\ backendTrends \in BackendTrends
    /\ toasts = <<>>
    /\ UsersIdle /\ SimInit /\ BandInit /\ RouteInit
    /\ ExtIdle

NextDash == DashMount

SpecDash == InitDash /\ [][NextDash]_vars

\* C8: once the Dashboard has loaded, the 'High Risk Users' card shows the
\* backend's high_risk_users value with the red icon colour, whatever the
\* other three values are.
C8_HighRiskCardShowsBackendValue ==
    (dashFetch # "init" /\ DashRendered) =>
        /\ HighRiskUsersCard.value = toLocaleString(backendStats.high_risk_users)
        /\ HighRiskUsersCard.iconClasses = ColorClasses.red

-----------------------------------------------------------------------------
(* Specification of the banding helpers as functions of the score *)

InitBand ==
    /\ score \in 0..MaxScoreTenths
    /\ scoreClasses = [c \in {"Users", "UserDetail", "RiskSimulator",
                              "Recommendations"} |-> "unrendered"]
    /\ toasts = <<>>
    /\ UsersIdle /\ SimInit /\ DashIdle /\ RouteInit
    /\ ExtIdle

NextBand == RenderScore

SpecBand == InitBand /\ [][NextBand]_vars

ScoreRendered == scoreClasses["Users"] # "unrendered"

\* the banding with thresholds 40 / 30 / 20
FourBands(s) ==
    IF s >= 400 THEN "red"
    ELSE IF s >= 300 THEN "orange"
    ELSE IF s >= 200 THEN "yellow"
    ELSE "green"

\* C7 as stated: each of the four components maps every score by the
\* 40 / 30 / 20 banding (red, orange, yellow, green).
C7_AllFourUseFourBands ==
    ScoreRendered =>
        \A c \in DOMAIN scoreClasses : ColourOf(scoreClasses[c]) = FourBands(score)

\* C7 as amended: Users, UserDetail and the Risk Simulator map every score by
\* the 40 / 30 / 20 banding; Recommendations maps s >= 40 to red and every
\* lower score to orange; so in all four 39.9 is orange and 40.0 is red.
C7_BandsPerComponent ==
    ScoreRendered =>
        /\ \A c \in {"Users", "UserDetail", "RiskSimulator"} :
              ColourOf(scoreClasses[c]) = FourBands(score)
        /\ ColourOf(scoreClasses["Recommendations"]) =
              (IF score >= 400 THEN "red" ELSE "orange")
        /\ (score = 399 =>
              \A c \in DOMAIN scoreClasses : ColourOf(scoreClasses[c]) = "orange")
        /\ (score = 400 =>
              \A c \in DOMAIN scoreClasses : ColourOf(scoreClasses[c]) = "red")

\* C7 witness: the score 40.0 was rendered, red in each component.
C7_Witness ==
    /\ ScoreRendered
    /\ score = 400
    /\ \A c \in DOMAIN scoreClasses : ColourOf(scoreClasses[c]) = "red"

-----------------------------------------------------------------------------
(* Specification of routing and session *)

InitRoute ==
    /\ RouteInit
    /\ toasts = <<>>
    /\ UsersIdle /\ SimInit /\ DashIdle /\ BandInit
    /\ ExtIdle

NextRoute ==
    \/ \E p \in NavPaths : Navigate(p)
    \/ \E u \in SessionUsers : Login(u)
    \/ Logout
    \/ \E b \in BOOLEAN : SetSidebarOpen(b)

SpecRoute == InitRoute /\ [][NextRoute]_vars

\* the paths of the data pages among the navigable ones
DataPagePaths == { p \in NavPaths : PageAt(p) \in DataPages }

\* C10: a data page is rendered only with a session; after navigation to a
\* data page route without a session the location is the login screen; and
\* /login and /register are rendered without a session when navigated to.
C10_DataPagesBehindGuard ==
    /\ (RenderedPage \in DataPages => session # NoSession)
    /\ (session = NoSession /\ lastNav \in DataPagePaths \cup {pRoot}
            => location = pLogin /\ RenderedPage = "Login")
    /\ (session = NoSession /\ lastNav = pLogin => RenderedPage = "Login")
    /\ (session = NoSession /\ lastNav = pRegister => RenderedPage = "Register")

\* C10 witness: /settings was requested without a session and the login
\* screen is shown.
C10_Witness ==
    /\ session = NoSession
    /\ lastNav = pSettings
    /\ location = pLogin

-----------------------------------------------------------------------------
(* Specification of the outbound HTTP traffic: the riskAPI functions are    *)
(* invoked, and the Recommendations page is mounted and sends its request   *)

InitNet ==
    /\ localStorage \in StoredTokens
    /\ NetInit
    /\ RecInit
    /\ DetailIdle /\ LifeInit /\ MoreIdle
    /\ toasts = <<>>
    /\ UsersIdle /\ SimInit /\ DashIdle /\ BandInit /\ RouteInit

NextNet ==
    \/ InvokeGetUserRiskScores
    \/ \E id \in UserIds : InvokeGetUserById(id)
    \/ \E id \in UserIds : InvokeUpdateRiskScore(id, 420)
    \/ \E i \in 1..Len(requests) :
          \E body \in BodiesOf("getUserRiskScores") \cup BodiesOf("getUserById")
                        \cup BodiesOf("updateRiskScore") : HttpRespond(i, body)
    \/ \E i \in 1..Len(requests) : HttpFail(i)
    \/ RecMount
    \/ \E i \in 1..Len(requests) :
          \E body \in WellFormedBodies : RecFetchOk(i, body)
    \/ \E i \in 1..Len(requests) : RecFetchReject(i)

SpecNet == InitNet /\ [][NextNet]_vars

\* C11: every HTTP request sent, by a riskAPI function or by a page itself,
\* carries an Authorization header with the bearer credential read from
\* localStorage.
C11_EveryRequestCarriesBearer ==
    \A i \in 1..Len(requests) :
        <<"Authorization", BearerOf(localStorage)>> \in requests[i].headers

\* the requests sent for invocation c
RequestsOf(c) == { i \in 1..Len(requests) : requests[i].call = c }

\* C13: every invocation of a riskAPI function has exactly one request; while
\* that request is unanswered the invocation is pending, when it fails the
\* invocation is rejected (the failure reaches the caller, no second request
\* is sent), and when it is answered the invocation returns the body of this
\* very request.
C13_OneRequestPerInvocation ==
    \A c \in 1..Len(calls) :
        /\ Cardinality(RequestsOf(c)) = 1
        /\ \A i \in RequestsOf(c) :
              /\ (requests[i].status = "pending") = (calls[c].status = "pending")
              /\ (requests[i].status = "failed") = (calls[c].status = "rejected")
              /\ (requests[i].status = "ok") = (calls[c].status = "fulfilled")
              /\ (calls[c].status = "fulfilled" =>
                      calls[c].value = requests[i].body)

\* C13 witness: getUserRiskScores was invoked twice; the first request failed
\* and that invocation is rejected, the second invocation returned the body
\* of its own request; two requests were sent in all.
C13_Witness ==
    /\ Len(calls) = 2
    /\ \A c \in 1..2 : calls[c].fn = "getUserRiskScores"
    /\ calls[1].status = "rejected"
    /\ calls[2].status = "fulfilled"
    /\ calls[2].value = requests[2].body
    /\ Len(requests) = 2

-----------------------------------------------------------------------------
(* Specification of the pages from mount: a session exists, the router has  *)
(* settled on the route of one data page, and that page is mounted and      *)
(* operated (the Dashboard with its simulator)                              *)

PagePaths ==
    { pDashboard, pUsers, <<"users", "1">>, <<"users", "2">>, pRecommendations }

InitPages ==
    /\ session \in SessionUsers
    /\ location \in PagePaths
    /\ lastNav = location
    /\ sidebarOpen = FALSE
    /\ UsersInit
    /\ IF location = pUsers THEN backendUsers \in UserLists
       ELSE backendUsers = <<>>
    /\ DashIdle /\ SimInit /\ BandInit
    /\ localStorage = <<"tok1">>
    /\ NetInit /\ RecInit /\ DetailInit
    /\ LifeInit /\ MoreIdle
    /\ toasts = <<>>

NextPages ==
    \/ /\ RenderedPage = "Users"
       /\ \/ UsersMount
          \/ UsersFetchResolve
          \/ UsersFetchReject
          \/ \E t \in SearchTerms : SetSearchTerm(t)
          \/ \E f \in FilterOptions : SetSelectedFilter(f)
    \/ /\ RenderedPage = "Dashboard"
       /\ \/ DashMount
          \/ (DashRendered /\ HandleSubmitThrows)
    \/ DetailMount
    \/ \E id \in {"1", "2"} : DetailParamChange(id)
    \/ /\ RenderedPage = "Recommendations"
       /\ \/ RecMount
          \/ HandleRefresh
          \/ \E i \in 1..Len(requests) : \E body \in RecBodies : RecFetchOk(i, body)
          \/ \E i \in 1..Len(requests) : RecFetchNotOk(i)
          \/ \E i \in 1..Len(requests) : RecFetchReject(i)

SpecPages == InitPages /\ [][NextPages]_vars

\* C12: the operations the pages invoke on riskAPI are functions of it (no
\* call throws at the call), and the payload a page reads from the result of
\* the risk-score listing is the array the backend returned.
C12_ClientServesItsCallers ==
    /\ dashFetch # "threw"
    /\ detailFetch # "threw"
    /\ (usersFetch = "resolved" => users = ArrayOf(backendUsers))

\* C14: whatever the shape of the body a page's fetch is answered with, no
\* page is in a crashed state.
C14_NoPageCrashes == ~usersCrashed /\ ~recCrashed

\* C15: on Users, Dashboard and UserDetail the loading flag, once false, stays
\* false, and once the mount-time fetch has settled no step puts a fetch in
\* flight again; on Recommendations a request sent after the mount-time one is
\* sent by the refresh action.
C15_LoadsOncePerMount ==
    /\ [][/\ (~usersIsLoading => ~usersIsLoading')
          /\ (~dashIsLoading => ~dashIsLoading')
          /\ (~detailIsLoading => ~detailIsLoading')
          /\ (usersFetch \in {"resolved", "rejected"} => usersFetch' = usersFetch)
          /\ (dashFetch # "init" => dashFetch' = dashFetch)
          /\ (detailFetch # "init" => detailFetch' = detailFetch)]_vars
    /\ [][(recFetch = "mounted" /\ Len(requests') > Len(requests)) =>
             /\ ~recIsRefreshing /\ recIsRefreshing'
             /\ requests'[Len(requests')].origin = "refresh"]_vars

\* C15 witness: the Users fetch has settled (failed), the user has since
\* typed a search term and chosen a risk level, and the page is still out of
\* loading with no fetch in flight.
C15_Witness ==
    /\ usersFetch = "rejected"
    /\ searchTerm = <<"a">>
    /\ selectedFilter = sHigh
    /\ ~usersIsLoading

-----------------------------------------------------------------------------
(* Specification of the Users page render by render: a Ready page holding  *)
(* any list of records, on which the search box and the select are operated, *)
(* each change followed by the filter effect                                 *)

NextRender ==
    \/ \E t \in SearchTerms : SearchTermRender(t)
    \/ \E f \in FilterOptions : SelectedFilterRender(f)
    \/ FilterEffect

SpecRender == InitFilter /\ [][NextRender]_vars

\* C16: in every rendered state after loading, the filtered list on display
\* is filterUsers applied to the current users, search term and selected
\* filter.
C16_DisplayedListIsDerivation ==
    UsersRendered =>
        filteredUsers = filterUsers(users.items, searchTerm, selectedFilter)

-----------------------------------------------------------------------------
(* Claims about the order of the filtered list and about the stored list,    *)
(* under SpecFilter                                                          *)

\* C17: after every recomputation the filtered list is ordered by
\* current_score, non-increasing: of two adjacent rows the earlier has a
\* score greater than or equal to the later one's.
C17_RowsSortedByScore ==
    \A j \in 1..(Len(filteredUsers) - 1) :
        filteredUsers[j].current_score >= filteredUsers[j + 1].current_score

\* C17 witness: after a search, two rows are shown, the higher score first,
\* although the backend listed that record second.
C17_Witness ==
    /\ searchTerm # <<>>
    /\ Len(filteredUsers) = 2
    /\ filteredUsers[1].current_score > filteredUsers[2].current_score
    /\ users.items[1] = filteredUsers[2]

\* C18: whatever was searched and selected, the stored users list is the list
\* received from the backend, in content and order, and every row shown is
\* one of its records with its score and risk level as received.
C18_StoredListAsReceived ==
    /\ users = ArrayOf(backendUsers)
    /\ \A j \in 1..Len(filteredUsers) :
          \E i \in 1..Len(backendUsers) :
              /\ filteredUsers[j] = backendUsers[i]
              /\ filteredUsers[j].current_score = backendUsers[i].current_score
              /\ filteredUsers[j].risk_level = backendUsers[i].risk_level

\* C18 witness: a search term and a risk level are set and have filtered one
\* of two records out of the view; the stored list still holds both, the
\* lower score first as the backend sent them.
C18_Witness ==
    /\ searchTerm # <<>>
    /\ selectedFilter # sAll
    /\ Len(backendUsers) = 2
    /\ backendUsers[1].current_score < backendUsers[2].current_score
    /\ Len(filteredUsers) = 1
    /\ users.items = backendUsers

-----------------------------------------------------------------------------
(* Claim about the simulator's result, under SpecSim *)

-----------------------------------------------------------------------------
(* Specification of a page that is mounted and then left, with its fetch     *)
(* possibly still in flight                                                  *)

InitLife ==
    /\ session \in SessionUsers
    /\ location \in {pDashboard, pUsers, <<"users", "1">>, pRecommendations}
    /\ lastNav = location
    /\ sidebarOpen = FALSE
    /\ UsersInit
    /\ IF location = pUsers THEN backendUsers \in UserLists
       ELSE backendUsers = <<>>
    /\ DashIdle /\ SimInit /\ BandInit
    /\ localStorage = <<"tok1">>
    /\ NetInit /\ RecInit /\ DetailInit
    /\ LifeInit /\ MoreIdle
    /\ toasts = <<>>

NextLife ==
    \/ /\ RenderedPage = "Users"
       /\ \/ UsersMount
          \/ UsersFetchResolve
          \/ UsersFetchReject
    \/ (RenderedPage = "Dashboard" /\ DashMount)
    \/ DetailMount
    \/ /\ RenderedPage = "Recommendations"
       /\ \/ RecMount
          \/ HandleRefresh
          \/ \E i \in 1..Len(requests) :
                \E body \in WellFormedBodies : RecFetchOk(i, body)
          \/ \E i \in 1..Len(requests) : RecFetchReject(i)
    \/ LeavePage
    \/ UsersFetchResolveLate
    \/ UsersFetchRejectLate
    \/ \E i \in 1..Len(requests) :
          \E body \in WellFormedBodies \cup {NotJson} : RecFetchOkLate(i, body)
    \/ \E i \in 1..Len(requests) : RecFetchNotOkLate(i)
    \/ \E i \in 1..Len(requests) : RecFetchRejectLate(i)

SpecLife == InitLife /\ [][NextLife]_vars

\* the setter calls the step has added to lateUpdates
NewLateUpdates == SubSeq(lateUpdates', Len(lateUpdates) + 1, Len(lateUpdates'))

\* C20: unmounting a page cancels nothing (its fetch stays in flight), and
\* when the answer of a fetch arrives after its page was unmounted the
\* continuation still makes its state updates: the data setter with the
\* payload it read (on success) and the loading setter with false.
C20_LateResultStillApplied ==
    /\ [][unmounted' # unmounted =>
             (usersFetch' = usersFetch /\ requests' = requests)]_vars
    /\ [][("Users" \in unmounted /\ usersFetch = "pending"
           /\ usersFetch' # "pending") =>
             NewLateUpdates =
                 (IF usersFetch' = "resolved"
                  THEN <<SetterCall("Users", "setUsers",
                                    DataOf(getUserRiskScores(backendUsers)))>>
                  ELSE <<>>)
                 \o <<SetterCall("Users", "setIsLoading", BoolOf(FALSE))>>]_vars
    /\ [][("Recommendations" \in unmounted /\ requests' # requests) =>
             \E i \in 1..Len(requests) :
                 /\ requests[i].status = "pending"
                 /\ requests'[i].status # "pending"
                 /\ NewLateUpdates =
                       (IF requests'[i].status = "ok"
                           /\ requests'[i].body # NotJson
                        THEN <<SetterCall("Recommendations", "setData",
                                          requests'[i].body)>>
                        ELSE <<>>)
                       \o <<SetterCall("Recommendations", "setIsLoading",
                                       BoolOf(FALSE)),
                            SetterCall("Recommendations", "setIsRefreshing",
                                       BoolOf(FALSE))>>]_vars

\* C20 witness: the Users page was left while its fetch was in flight; the
\* answer has arrived since, and setUsers and setIsLoading were called on
\* the unmounted component.
C20_Witness ==
    /\ "Users" \in unmounted
    /\ usersFetch = "resolved"
    /\ Len(lateUpdates) = 2
    /\ lateUpdates[1].setter = "setUsers"
    /\ lateUpdates[2] = SetterCall("Users", "setIsLoading", BoolOf(FALSE))

-----------------------------------------------------------------------------
(* Specification of the session: a session exists and one page is routed;  *)
(* the page fetches and is operated, the layout's controls are used, the   *)
(* user logs out and logs in again                                         *)

SessionPaths == PagePaths \cup {pSettings}

InitSession ==
    /\ session \in SessionUsers
    /\ location \in SessionPaths
    /\ lastNav = location
    /\ sidebarOpen = FALSE
    /\ UsersInit
    /\ IF location = pUsers THEN backendUsers \in UserLists
       ELSE backendUsers = <<>>
    /\ DashIdle /\ SimInit /\ BandInit
    /\ localStorage = <<"tok1">>
    /\ NetInit /\ RecInit /\ DetailInit
    /\ LifeInit /\ MoreIdle
    /\ toasts = <<>>

MaxSessionEdited == 1

\* the controls of the Settings page; here at most MaxSessionEdited fields
\* are away from their initial values at a time
SettingsEdits ==
    \/ \E t \in TabIds : SetActiveTab(t)
    \/ SettingsInput /\ Cardinality(Edited(settings')) <= MaxSessionEdited
    \/ SettingsToggle /\ Cardinality(Edited(settings')) <= MaxSessionEdited
    \/ HandleSave

\* the fetches of the pages and the submission of the simulator, with every
\* outcome they have
PageFetches ==
    \/ /\ RenderedPage = "Users"
       /\ (UsersMount \/ UsersFetchResolve \/ UsersFetchReject)
    \/ /\ RenderedPage = "Dashboard"
       /\ \/ DashMount
          \/ /\ DashRendered
             /\ \/ HandleSubmitThrows
                \/ HandleSubmit
                \/ PredictResolve
                \/ PredictReject
    \/ DetailMount
    \/ /\ RenderedPage = "Recommendations"
       /\ \/ RecMount
          \/ HandleRefresh
          \/ \E i \in 1..Len(requests) :
                \/ \E body \in WellFormedBodies : RecFetchOk(i, body)
                \/ RecFetchNotOk(i)
                \/ RecFetchReject(i)

NextSession ==
    \/ PageFetches
    \/ SettingsEdits
    \/ SaveTimerFires
    \/ \E b \in BOOLEAN : SetSidebarOpen(b)
    \/ Logout
    \/ \E u \in SessionUsers : Login(u)

SpecSession == InitSession /\ [][NextSession]_vars

\* C21: the session changes only in a step of login or of the layout's
\* Logout button: no outcome of a page fetch or of a simulator submission,
\* no edit on the Settings page and no other control of the layout changes
\* or clears it.
C21_SessionChangesOnlyByLoginLogout ==
    [][ session' # session =>
            (Logout \/ \E u \in SessionUsers : Login(u)) ]_vars

\* C21 witness: a recommendations refresh was answered with a non-OK status
\* and the page still runs under the session; the user then logged out.
C21_Witness ==
    /\ \E i \in 1..Len(requests) :
          requests[i].origin = "refresh" /\ requests[i].status = "notok"
    /\ session = NoSession
    /\ location = pLogin

-----------------------------------------------------------------------------
(* Specification of the pages that fetch under Promise.all, with the        *)
(* requests in flight: a session exists and the router has settled on       *)
(* /users/:id or on /dashboard                                              *)

InitPar ==
    /\ session \in SessionUsers
    /\ location \in { <<"users", "1">>, <<"users", "2">>, pDashboard }
    /\ lastNav = location
    /\ sidebarOpen = FALSE
    /\ UsersInit
    /\ IF location = pDashboard
       THEN /\ backendUsers = <<>>
            /\ backendStats \in { s \in BackendStats : s.recent_alerts = 3 }
            /\ backendTrends \in BackendTrends
       ELSE /\ backendUsers \in DetailUserLists
            /\ backendStats = statsInitial
            /\ backendTrends = <<>>
    /\ DashInit /\ SimInit /\ BandInit
    /\ NetIdle /\ RecIdle /\ DetailIdle /\ LifeInit /\ MoreIdle
    /\ toasts = <<>>

NextPar ==
    \/ DetailFetchStart
    \/ \E id \in {"1", "2"} : DetailIdChange(id)
    \/ \E k \in 1..MaxFetches : \E which \in {"act", "usr"} :
          \E outcome \in {"ok", "failed"} : DetailResponse(k, which, outcome)
    \/ DashFetchStart
    \/ \E which \in {"stats", "trends"} :
          \E outcome \in {"ok", "failed"} : DashResponse(which, outcome)

SpecPar == InitPar /\ [][NextPar]_vars

SameId(v, id) ==
    \/ v.kind = "string" /\ v.text = id
    \/ v.kind = "number" /\ v.value = parseInt(id)

RecordsWithId(list, id) ==
    SelectSeq(list, LAMBDA u : SameId(u.user_id, id))

DetailSettledNow ==
    { k \in DOMAIN detailFetches :
        ~detailFetches[k].settled /\ detailFetches'[k].settled }

DetailAtomicStep ==
    /\ \A k \in DetailSettledNow :
          IF detailFetches'[k].act = "ok" /\ detailFetches'[k].usr = "ok"
          THEN /\ activities' =
                     DataOf(getUserActivity(parseInt(detailFetches[k].id)))
               /\ detailUser' = FindUser(backendUsers, detailFetches[k].id)
          ELSE UNCHANGED <<activities, detailUser>>
    /\ DetailSettledNow = {} => UNCHANGED <<activities, detailUser>>

DashAtomicStep ==
    IF dashFetch = "pending" /\ dashFetch' # "pending"
    THEN IF dashAnswers'.stats = "ok" /\ dashAnswers'.trends = "ok"
         THEN stats' = backendStats /\ trends' = backendTrends
         ELSE UNCHANGED <<stats, trends>>
    ELSE UNCHANGED <<stats, trends>>

-----------------------------------------------------------------------------
(* Recommendations: fetches in flight and the refresh notification          *)
(* (checked under SpecPages)                                                *)

RecInFlight ==
    { i \in DOMAIN requests :
        requests[i].via = "fetch" /\ requests[i].status = "pending" }

\* C23: on Recommendations at most one fetch is in flight at any time: while
\* the initial load is in flight the page returns the loading view, which
\* has no refresh control, and while a refresh is in flight the control is
\* disabled.
C23_OneRecFetchInFlight ==
    /\ Cardinality(RecInFlight) <= 1
    /\ \A i \in RecInFlight :
          /\ requests[i].origin = "mount" => ~RecRendered
          /\ requests[i].origin = "refresh" => RefreshDisabled

\* C23 witness: the initial load was answered and a refresh is in flight, with
\* the control disabled.
C23_Witness ==
    /\ Len(requests) = 2
    /\ requests[1].origin = "mount" /\ requests[1].status = "ok"
    /\ requests[2].origin = "refresh" /\ requests[2].status = "pending"
    /\ RecRendered
    /\ RefreshDisabled

RefreshToasts ==
    SelectSeq(toasts, LAMBDA t : t = SuccessToast("Recommendations updated"))

\* the refreshes whose fetch succeeded and whose response replaced the data
ReplacingRefreshes ==
    { i \in DOMAIN requests :
        /\ requests[i].origin = "refresh"
        /\ requests[i].status = "ok"
        /\ requests[i].body # NotJson }

\* C24: 'Recommendations updated' is shown only for a refresh whose fetch
\* succeeded and replaced the displayed data: there are as many such
\* notifications as such refreshes, none for a refresh that failed or was
\* answered with a non-OK status.
C24_SuccessToastOnlyAfterReplacement ==
    Len(RefreshToasts) = Cardinality(ReplacingRefreshes)

-----------------------------------------------------------------------------
(* Specification of the stat cards: the Users page holds a list whose risk  *)
(* levels are the five levels in various letter cases; the search box and   *)
(* the filter are operated                                                  *)

CardUserPool ==
    { [user_id |-> 1, name |-> <<"A","l"," ","B">>, email |-> <<"a","l","@","x">>,
       current_score |-> 452, risk_level |-> <<"C","r","i","t","i","c","a","l">>],
      [user_id |-> 2, name |-> <<"b","o","b">>, email |-> <<"b","@","x">>,
       current_score |-> 310, risk_level |-> <<"H","I","G","H">>],
      [user_id |-> 3, name |-> <<"a","a">>, email |-> <<"z","@","y">>,
       current_score |-> 250, risk_level |-> <<"M","e","d","i","u","m">>],
      [user_id |-> 4, name |-> <<"B","a","b">>, email |-> <<"B","A","@","x">>,
       current_score |-> 240, risk_level |-> <<"m","e","d","i","u","m">>],
      [user_id |-> 5, name |-> <<"c"," ","c">>, email |-> <<"c","@","y">>,
       current_score |-> 120, risk_level |-> <<"l","o","w">>],
      [user_id |-> 6, name |-> <<"d">>, email |-> <<"d","@","y">>,
       current_score |-> 110, risk_level |-> <<"L","o","W">>],
      [user_id |-> 7, name |-> <<"e"," ","a">>, email |-> <<"e","@","y">>,
       current_score |-> 50, risk_level |-> <<"M","I","N","I","M","A","L">>] }

CardUserLists ==
    { l \in UNION { [1..n -> CardUserPool] : n \in 0..MaxUsers } :
        \A i, j \in 1..Len(l) : i # j => l[i] # l[j] }

InitCards ==
    /\ \E l \in CardUserLists :
          /\ users = ArrayOf(l)
          /\ backendUsers = l
          /\ filteredUsers = filterUsers(l, <<>>, sAll)
    /\ usersIsLoading = FALSE
    /\ searchTerm = <<>>
    /\ selectedFilter = sAll
    /\ usersFetch = "resolved"
    /\ usersCrashed = FALSE
    /\ toasts = <<>>
    /\ SimInit
    /\ DashIdle /\ BandInit /\ RouteInit
    /\ ExtIdle

SpecCards == InitCards /\ [][NextFilter]_vars

\* the cards a user is counted in
CardsCounting(x) ==
    { c \in {"High Risk", "Medium Risk", "Low Risk"} :
        CASE c = "High Risk"   -> HighRiskCard(ArrayOf(<<x>>)) = 1
          [] c = "Medium Risk" -> MediumRiskCard(ArrayOf(<<x>>)) = 1
          [] c = "Low Risk"    -> LowRiskCard(ArrayOf(<<x>>)) = 1 }

\* C27: for a users list whose risk levels are among minimal, low, medium,
\* high and critical in any letter case, every user is counted in exactly one
\* of the 'High Risk', 'Medium Risk' and 'Low Risk' cards, the three counts
\* sum to 'Total Users', and no change of the search term or of the selected
\* filter changes a count.
C27_CardsPartitionUsers ==
    /\ [](/\ \A i \in DOMAIN users.items :
                Cardinality(CardsCounting(users.items[i])) = 1
          /\ HighRiskCard(users) + MediumRiskCard(users) + LowRiskCard(users)
                = TotalUsersCard(users))
    /\ [][StatCards' = StatCards]_vars

\* C27 witness: two users, one counted as high and one as low risk ('MINIMAL'),
\* while a search term and a filter are set that list neither.
C27_Witness ==
    /\ StatCards = <<2, 1, 0, 1>>
    /\ \E i \in DOMAIN users.items :
          users.items[i].risk_level = <<"M","I","N","I","M","A","L">>
    /\ searchTerm # <<>>
    /\ selectedFilter = sMedium
    /\ filteredUsers = <<>>

-----------------------------------------------------------------------------
(* The preset scenarios as operations on the draft (checked under SpecDraft) *)

\* the fields every preset lists
CommonPresetFields ==
    {"action", "resource", "location", "success", "failed_attempts",
     "session_duration"}

\* C28: for every draft and presets P and Q: a second click on P leaves the
\* draft as the first click made it; after a click on Q, whatever preceded
\* it, the six fields common to all presets hold Q's values; and no preset
\* click changes user_id or login_frequency.
C28_PresetAlgebra ==
    [][\A q \in PresetIndexes :
          (lastOp' = [kind |-> "preset", index |-> q]) =>
              /\ (lastOp = [kind |-> "preset", index |-> q]) =>
                    formData' = formData
              /\ \A f \in CommonPresetFields :
                    /\ f \in DOMAIN presetScenarios[q].data
                    /\ formData'[f] = presetScenarios[q].data[f]
              /\ formData'.user_id = formData.user_id
              /\ formData'.login_frequency = formData.login_frequency]_vars

\* C28 witness: user_id was edited, 'Large Data Download' and then 'Normal
\* Activity' were clicked: the six common fields are those of 'Normal
\* Activity', file_size and user_id are as they were left.
C28_Witness ==
    /\ lastOp = [kind |-> "preset", index |-> 1]
    /\ formData.user_id = 2
    /\ formData.file_size = 2048
    /\ formData.login_frequency = 1
    /\ \A f \in CommonPresetFields : formData[f] = presetScenarios[1].data[f]

-----------------------------------------------------------------------------
(* Specification of the Settings page: a session exists, the router has     *)
(* settled on /settings and the page is mounted and operated                *)

InitSettings ==
    /\ session = [name |-> "alice", role |-> "admin"]
    /\ location = pSettings
    /\ lastNav = pSettings
    /\ sidebarOpen = FALSE
    /\ UsersIdle /\ SimInit /\ DashIdle /\ BandInit
    /\ ExtIdle
    /\ toasts = <<>>

NextSettings ==
    \/ \E t \in TabIds : SetActiveTab(t)
    \/ SettingsInput
    \/ SettingsToggle
    \/ HandleSave
    \/ SaveTimerFires

SpecSettings == InitSettings /\ [][NextSettings]_vars

\* per tab, the fields and values its controls call handleInputChange with
SettingsCalls ==
    [sec \in TabIds |->
        UNION { {fld} \X SettingsInputs[sec][fld] :
                   fld \in DOMAIN SettingsInputs[sec] }
        \cup UNION { {fld} \X BOOLEAN : fld \in SettingsToggles[sec] }]

\* C29: handleInputChange(section, field, value) sets exactly that field of
\* that section to value and leaves every other field of that section and
\* every other section as they were; a tab switch and a save (its start and
\* its completion) change no settings value.
C29_InputChangeSetsOneField ==
    [][ /\ \A c \in SettingsCalls[activeTab] :
              SettingsHandleInputChange(activeTab, c[1], c[2]) =>
                  /\ DOMAIN settings' = DOMAIN settings
                  /\ \A sec \in DOMAIN settings :
                        /\ DOMAIN settings'[sec] = DOMAIN settings[sec]
                        /\ \A fld \in DOMAIN settings[sec] :
                              settings'[sec][fld] =
                                 IF sec = activeTab /\ fld = c[1] THEN c[2]
                                 ELSE settings[sec][fld]
        /\ ( (\E t \in TabIds : SetActiveTab(t)) \/ HandleSave \/ SaveTimerFires )
              => settings' = settings ]_vars

\* C29 witness: the log level was set to 'debug' on the system tab with the
\* profile name edited before; the name is still the edited one, the tab was
\* switched and a save has completed.
C29_Witness ==
    /\ settings.system.logLevel = "debug"
    /\ settings.profile.name = "Jane Roe"
    /\ activeTab = "security"
    /\ saves = 1 /\ ~settingsIsLoading

-----------------------------------------------------------------------------
(* Specification of saving on the Settings page: the tabs, the switches and *)
(* the save button are operated; the timer of a save fires one second after *)
(* it was armed                                                             *)

NextSave ==
    \/ \E t \in TabIds : SetActiveTab(t)
    \/ SettingsToggle
    \/ HandleSave
    \/ SaveTimerFires

SpecSave == InitSettings /\ [][NextSave]_vars

FairSpecSave == SpecSave /\ WF_vars(SaveTimerFires)

SaveToasts ==
    SelectSeq(toasts, LAMBDA t : t = SuccessToast("Settings saved successfully!"))

\* C30: every save eventually completes; the save control is disabled from
\* the start of a save until it completes, so that no two saves are in
\* progress at the same time, and each save has produced exactly one success
\* notification when the control is enabled again.
C30_SaveCompletes ==
    /\ [](saveTimers <= 1)
    /\ [](SaveDisabled <=> saveTimers = 1)
    /\ [](Len(SaveToasts) = saves - saveTimers)
    /\ (SaveDisabled ~> ~SaveDisabled)

\* C30 witness: two saves were made one after the other, a switch was
\* toggled in between; both have completed, with two notifications, and the
\* control is enabled.
C30_Witness ==
    /\ saves = 2
    /\ saveTimers = 0
    /\ ~SaveDisabled
    /\ Len(SaveToasts) = 2
    /\ Edited(settings) # {}

=============================================================================
